---- MODULE Spec2Model ----
(***************************************************************************)
(* A model of the OpenReader query service: the Transaction wrapper around *)
(* a pooled connection, the request context / cleanup hook of the server,  *)
(* and the QueryBuilder that plans one SQL statement per request           *)
(* (AliasSet, FkJoinSet, ColumnSet, Cursor, select, generateWhere).        *)
(***************************************************************************)
EXTENDS Integers, Sequences, FiniteSets, TLC

VARIABLES
    \* ---- Transaction (src/src/transaction.ts)
    closed,        \* Transaction.closed
    client,        \* Transaction.client: the promise, [state, value]
    stPc,          \* position of the startTransaction() coroutine
    callers,       \* what each caller of get() has observed
    closes,        \* the state of each close() call
    connectCalls,  \* number of pool.connect() calls
    startCalls,    \* number of START TRANSACTION statements sent
    commitCalls,   \* number of COMMIT statements sent
    releases,      \* number of client.release() calls
    \* ---- server context and cleanup plugin (src/src/server.ts)
    srvPc,         \* position of the request: context() then willSendResponse()
    srvHeld,       \* the request's client is checked out of the pool
    srvReleases,   \* number of db.release() calls of the request
    \* ---- QueryBuilder (src/src/queryBuilder.ts)
    aliases,       \* AliasSet.aliases: base name -> counter
    allocated,     \* every alias AliasSet.add has returned, in order
    params,        \* QueryBuilder.params
    request,       \* the request being executed: entity / query, args, fields
    database,      \* the rows of the tables
    selPc,         \* position of executeSelect / executeFulltextSearch
    plan,          \* what planning produced: the statement, the field tree
    stmts,         \* the statements sent to the connection, [text, params]
    reply,         \* what the database answered
    result,        \* what the call returned
    \* ---- where-inputs (src/src/where.ts, QueryBuilder.generateWhere)
    whereIn,       \* the where-input under examination, [entity, where]
    wherePc,       \* which of the three functions has been applied
    whereOut,      \* what they returned: [has, text, sql]
    \* ---- relay cursors (src/src/relayConnection.ts)
    cursorIn,      \* a cursor to encode, or a value received as `after`
    cursorPc,      \* start, encoded, decoded
    cursorOut,     \* [value: the encoded cursor, decoded: what decodeCursor returned]
    \* ---- connections (resolveEntityConnection)
    connArgs,      \* the connection field: entity, args, requested fields
    connPc,        \* position of resolveEntityConnection
    connLocal,     \* its local variables: offset, limit, the rows read
    response,      \* the ConnectionResponse under construction
    \* ---- requested fields (src/src/requestedFields.ts)
    selection,     \* the selection set of a query on an entity
    rfPc,          \* position of requestedFields
    requested,     \* the RequestedFields tree it returned
    \* ---- row shaping (QueryBuilder.mapRow)
    rowIn,         \* the planned fields and one row of the reply
    rowPc,         \* position of the mapping
    rowOut,        \* the record mapRow returned
    \* ---- where keys (parseWhereField of src/src/where.ts)
    keyIn,         \* the key of a where-input, the words its underscores separate
    keyPc,         \* position of parseWhereField
    keyOut         \* what it returned: [err, op, field]

txVars  == <<closed, client, stPc, callers, closes, connectCalls, startCalls, commitCalls, releases>>
srvVars == <<srvPc, srvHeld, srvReleases>>
selVars == <<params, request, database, selPc, plan, stmts, reply, result>>
whVars  == <<whereIn, wherePc, whereOut>>
curVars  == <<cursorIn, cursorPc, cursorOut>>
connVars == <<connArgs, connPc, connLocal, response>>
rfVars   == <<selection, rfPc, requested>>
rowVars  == <<rowIn, rowPc, rowOut>>
keyVars  == <<keyIn, keyPc, keyOut>>
moreVars == <<curVars, connVars, rfVars, rowVars, keyVars>>
qbVars  == <<aliases, allocated, selVars, whVars, moreVars>>
vars    == <<txVars, srvVars, qbVars>>

\* ---------------------------------------------------------------- bounds
MaxCallers == 2   \* callers of Transaction.get()
MaxCloses  == 2   \* calls of Transaction.close()
MaxAdds    == 4   \* AliasSet.add calls driven directly

Callers  == 1..MaxCallers
CloseIds == 1..MaxCloses

\* ------------------------------------------------------------ idle parts
TxIdle ==
    /\ closed = FALSE
    /\ client = [state |-> "undefined", value |-> 0]
    /\ stPc = "none"
    /\ callers = [c \in Callers |-> [state |-> "idle", value |-> 0]]
    /\ closes = [k \in CloseIds |-> "idle"]
    /\ connectCalls = 0
    /\ startCalls = 0
    /\ commitCalls = 0
    /\ releases = 0

SrvIdle ==
    /\ srvPc = "idle"
    /\ srvHeld = FALSE
    /\ srvReleases = 0

QbIdle ==
    /\ aliases = <<>>
    /\ allocated = <<>>

\* ============================================================ Transaction

\* What `await promise` / promise.then hands to a waiter once it has settled.
Settled(p) == p.state \in {"fulfilled", "rejected"}

\* get() without the memo: every call starts a transaction of its own.
get_nomemo(c) ==
    /\ callers[c].state = "idle"
    /\ IF closed
       THEN /\ callers' = [callers EXCEPT ![c].state = "threw"]
            /\ UNCHANGED <<client, stPc, connectCalls>>
       ELSE /\ client' = [state |-> "pending", value |-> 0]
            /\ stPc' = "awaitConnect"
            /\ connectCalls' = connectCalls + 1
            /\ callers' = [callers EXCEPT ![c].state = "waiting"]
    /\ UNCHANGED <<closed, closes, startCalls, commitCalls, releases, srvVars, qbVars>>

\* get() without the check of `closed`.
get_unchecked(c) ==
    /\ callers[c].state = "idle"
    /\ IF client.state # "undefined"
       THEN /\ callers' = [callers EXCEPT ![c].state = "waiting"]
            /\ UNCHANGED <<client, stPc, connectCalls>>
       ELSE /\ client' = [state |-> "pending", value |-> 0]
            /\ stPc' = "awaitConnect"
            /\ connectCalls' = connectCalls + 1
            /\ callers' = [callers EXCEPT ![c].state = "waiting"]
    /\ UNCHANGED <<closed, closes, startCalls, commitCalls, releases, srvVars, qbVars>>

\* Transaction.get(): throws when closed; returns the memoized promise; or
\* starts the transaction, which calls pool.connect() before its first await.
get(c) ==
    /\ callers[c].state = "idle"
    /\ IF closed
       THEN /\ callers' = [callers EXCEPT ![c].state = "threw"]
            /\ UNCHANGED <<client, stPc, connectCalls>>
       ELSE IF client.state # "undefined"
       THEN /\ callers' = [callers EXCEPT ![c].state = "waiting"]
            /\ UNCHANGED <<client, stPc, connectCalls>>
       ELSE /\ client' = [state |-> "pending", value |-> 0]
            /\ stPc' = "awaitConnect"
            /\ connectCalls' = connectCalls + 1
            /\ callers' = [callers EXCEPT ![c].state = "waiting"]
    /\ UNCHANGED <<closed, closes, startCalls, commitCalls, releases, srvVars, qbVars>>

\* pool.connect() resolved: the coroutine sends START TRANSACTION on the client.
startTransaction_connected ==
    /\ stPc = "awaitConnect"
    /\ stPc' = "awaitStart"
    /\ startCalls' = startCalls + 1
    /\ UNCHANGED <<closed, client, callers, closes, connectCalls, commitCalls, releases, srvVars, qbVars>>

\* pool.connect() rejected: nothing was obtained, the promise rejects.
startTransaction_connectFailed ==
    /\ stPc = "awaitConnect"
    /\ stPc' = "connectFailed"
    /\ client' = [state |-> "rejected", value |-> 0]
    /\ UNCHANGED <<closed, callers, closes, connectCalls, startCalls, commitCalls, releases, srvVars, qbVars>>

\* START TRANSACTION succeeded: the coroutine returns the client.
startTransaction_started ==
    /\ stPc = "awaitStart"
    /\ stPc' = "started"
    /\ client' = [state |-> "fulfilled", value |-> connectCalls]
    /\ UNCHANGED <<closed, callers, closes, connectCalls, startCalls, commitCalls, releases, srvVars, qbVars>>

\* START TRANSACTION failed: catch releases the client and rethrows.
startTransaction_startFailed ==
    /\ stPc = "awaitStart"
    /\ stPc' = "startFailed"
    /\ releases' = releases + 1
    /\ client' = [state |-> "rejected", value |-> 0]
    /\ UNCHANGED <<closed, callers, closes, connectCalls, startCalls, commitCalls, srvVars, qbVars>>

\* The promise returned by get() settles for a caller awaiting it.
get_settled(c) ==
    /\ callers[c].state = "waiting"
    /\ Settled(client)
    /\ callers' = [callers EXCEPT ![c] =
          IF client.state = "fulfilled"
          THEN [state |-> "resolved", value |-> client.value]
          ELSE [state |-> "rejected", value |-> 0]]
    /\ UNCHANGED <<closed, client, stPc, closes, connectCalls, startCalls, commitCalls, releases, srvVars, qbVars>>

\* Transaction.close(): sets closed; chains the commit onto the promise, or
\* returns Promise.resolve() when get() was never called.
close(k) ==
    /\ closes[k] = "idle"
    /\ closed' = TRUE
    /\ closes' = [closes EXCEPT ![k] =
          IF client.state = "undefined" THEN "noop" ELSE "chained"]
    /\ UNCHANGED <<client, stPc, callers, connectCalls, startCalls, commitCalls, releases, srvVars, qbVars>>

\* The then-callback of close(): sends COMMIT once the client promise is
\* fulfilled; a rejected client promise rejects the promise close() returned.
close_then(k) ==
    /\ closes[k] = "chained"
    /\ Settled(client)
    /\ IF client.state = "fulfilled"
       THEN /\ closes' = [closes EXCEPT ![k] = "awaitCommit"]
            /\ commitCalls' = commitCalls + 1
       ELSE /\ closes' = [closes EXCEPT ![k] = "rejected"]
            /\ UNCHANGED commitCalls
    /\ UNCHANGED <<closed, client, stPc, callers, connectCalls, startCalls, releases, srvVars, qbVars>>

\* close() that releases only after a successful COMMIT (no finally).
close_commitSettled_nofinally(k, ok) ==
    /\ closes[k] = "awaitCommit"
    /\ closes' = [closes EXCEPT ![k] = IF ok THEN "committed" ELSE "commitIgnored"]
    /\ releases' = IF ok THEN releases + 1 ELSE releases
    /\ UNCHANGED <<closed, client, stPc, callers, connectCalls, startCalls, commitCalls, srvVars, qbVars>>

\* COMMIT settled (ok or failed): the error is ignored, finally releases.
close_commitSettled(k, ok) ==
    /\ closes[k] = "awaitCommit"
    /\ closes' = [closes EXCEPT ![k] = IF ok THEN "committed" ELSE "commitIgnored"]
    /\ releases' = releases + 1
    /\ UNCHANGED <<closed, client, stPc, callers, connectCalls, startCalls, commitCalls, srvVars, qbVars>>

TxGet     == \E c \in Callers : get(c)
TxSettle  == \E c \in Callers : get_settled(c)
TxClose   == \E k \in CloseIds : close(k)
TxThen    == \E k \in CloseIds : close_then(k)
TxCommit  == \E k \in CloseIds, ok \in BOOLEAN : close_commitSettled(k, ok)

\* ====================================================== server.ts request

\* context(): pool.connect() is called.
context_begin ==
    /\ srvPc = "idle"
    /\ srvPc' = "awaitConnect"
    /\ UNCHANGED <<srvHeld, srvReleases, txVars, qbVars>>

\* pool.connect() settled; on success START TRANSACTION is sent.
context_connected(ok) ==
    /\ srvPc = "awaitConnect"
    /\ srvPc' = IF ok THEN "awaitStart" ELSE "contextFailed"
    /\ srvHeld' = ok
    /\ UNCHANGED <<srvReleases, txVars, qbVars>>

\* START TRANSACTION settled: {db, model} is returned, or catch releases.
context_started(ok) ==
    /\ srvPc = "awaitStart"
    /\ IF ok
       THEN /\ srvPc' = "resolving"
            /\ UNCHANGED <<srvHeld, srvReleases>>
       ELSE /\ srvPc' = "contextFailed"
            /\ srvHeld' = FALSE
            /\ srvReleases' = srvReleases + 1
    /\ UNCHANGED <<txVars, qbVars>>

\* willSendResponse(): ROLLBACK is sent.
willSendResponse ==
    /\ srvPc = "resolving"
    /\ srvPc' = "awaitRollback"
    /\ UNCHANGED <<srvHeld, srvReleases, txVars, qbVars>>

\* ROLLBACK settled (ok or failed): finally releases the client.
willSendResponse_settled(ok) ==
    /\ srvPc = "awaitRollback"
    /\ srvPc' = IF ok THEN "responded" ELSE "hookFailed"
    /\ srvHeld' = FALSE
    /\ srvReleases' = srvReleases + 1
    /\ UNCHANGED <<txVars, qbVars>>

SrvConnected == \E ok \in BOOLEAN : context_connected(ok)
SrvStarted   == \E ok \in BOOLEAN : context_started(ok)
SrvSettled   == \E ok \in BOOLEAN : willSendResponse_settled(ok)

\* ================================================================ AliasSet

\* this.aliases[name], undefined read as 0
AliasCount(al, name) == IF name \in DOMAIN al THEN al[name] ELSE 0

\* AliasSet.add(name): [alias, aliases']
AliasSet_add(al, name) ==
    IF AliasCount(al, name) # 0
    THEN [alias   |-> name \o "_" \o ToString(al[name]),
          aliases |-> [al EXCEPT ![name] = @ + 1]]
    ELSE [alias   |-> name,
          aliases |-> (name :> 1) @@ al]

\* Base names handed to AliasSet.add when it is driven as a unit.
BaseNames == {"account", "account_1", "historical_balance"}

add(name) ==
    /\ Len(allocated) < MaxAdds
    /\ LET r == AliasSet_add(aliases, name)
       IN  /\ aliases' = r.aliases
           /\ allocated' = Append(allocated, r.alias)
    /\ UNCHANGED <<txVars, srvVars, selVars, whVars, moreVars>>

AliasAdd == \E name \in BaseNames : add(name)

\* ================================================================== Model
\* The schema the planner is run on: the Account / HistoricalBalance schema
\* of the tests, with a BigInt balance and an embedded object on Account.

Scalar(name) == [kind |-> "scalar", name |-> name]

Model == [
    Account |-> [kind |-> "entity", properties |-> [
        id      |-> Scalar("ID"),
        wallet  |-> Scalar("String"),
        balance |-> Scalar("BigInt"),
        extra   |-> [kind |-> "object", name |-> "Extra"],
        history |-> [kind |-> "list-relation", entity |-> "HistoricalBalance", field |-> "account"]]],
    HistoricalBalance |-> [kind |-> "entity", properties |-> [
        id      |-> Scalar("ID"),
        account |-> [kind |-> "fk", foreignEntity |-> "Account"],
        balance |-> Scalar("Int")]],
    Extra |-> [kind |-> "object", properties |-> [
        score   |-> Scalar("Int")]]]

\* the full-text queries of the model: model[name] of kind 'fts'
FtsQueries == [search |-> [kind |-> "fts",
                           sources |-> <<[entity |-> "Account"], [entity |-> "HistoricalBalance"]>>]]

\* getFtsQuery(model, name)
getFtsQuery(name) == FtsQueries[name]

\* getEntity(model, name)
getEntity(name) == Model[name]

\* snakeCase(name): inflected's underscore() on the names of the schema
snakeCase(name) ==
    CASE name = "Account"           -> "account"
      [] name = "HistoricalBalance" -> "historical_balance"
      [] OTHER                      -> name

toColumn(gqlFieldName)   == snakeCase(gqlFieldName)
toFkColumn(gqlFieldName) == snakeCase(gqlFieldName) \o "_id"
toTable(entityName)      == snakeCase(entityName)

\* ============================================================== SQL text
\* SQL is kept as the tree of its template strings; Text renders a tree to
\* the token sequence of the string the code builds.  Tokens: fixed text,
\* an identifier passed through ident(), a placeholder $k (v: the literal
\* the placeholder was allocated for), and a literal written into the text.
Sql(s)      == [t |-> "sql", s |-> s]
Ident(s)    == [t |-> "id", s |-> s]
Dollar(k, v) == [t |-> "param", k |-> k, v |-> v]
Inline(v)   == [t |-> "lit", v |-> v]

Nil == [e |-> "nil"]

RECURSIVE JoinText(_, _)
\* texts.join(sep): a separator between every two neighbours, empty or not
JoinText(texts, sep) ==
    IF Len(texts) = 0 THEN <<>>
    ELSE IF Len(texts) = 1 THEN texts[1]
    ELSE texts[1] \o <<sep>> \o JoinText(Tail(texts), sep)

RECURSIVE Concat(_)
\* the texts appended one after the other (out += ...)
Concat(texts) == IF Len(texts) = 0 THEN <<>> ELSE texts[1] \o Concat(Tail(texts))

RECURSIVE Text(_)
TextAll(xs) == [i \in 1..Len(xs) |-> Text(xs[i])]

\* FkJoinSet.render
FkJoinSet_render(joins) ==
    Concat([i \in 1..Len(joins) |->
        <<Sql("LEFT OUTER JOIN"), Ident(joins[i].table), Ident(joins[i].alias),
          Sql("ON"), Ident(joins[i].alias), Sql(".\"id\" =")>> \o Text(joins[i].on)])

\* ColumnSet.render: the keys, joined
ColumnSet_render(columns) == JoinText([i \in 1..Len(columns) |-> columns[i].text], Sql(","))

\* the string select() returns for a planned statement
SelectText(q) ==
    (CASE q.variant = "fts" ->
            <<Sql("SELECT '" \o q.entity \o "' AS isTypeOf, ts_rank(")>> \o Text(q.tsv)
            \o <<Sql(", phraseto_tsquery('english',")>> \o Text(q.textParam)
            \o <<Sql(")) AS rank, ts_headline(")>> \o Text(q.doc)
            \o <<Sql(", phraseto_tsquery('english',")>> \o Text(q.textParam)
            \o <<Sql(")) AS highlight,")>>
            \o (IF Len(q.columns) > 0
                THEN <<Sql("json_build_array(")>> \o ColumnSet_render(q.columns) \o <<Sql(")")>>
                ELSE <<Sql("'[]'::json")>>)
            \o <<Sql("AS item")>>
       [] q.variant = "list-subquery" ->
            IF Len(q.columns) > 0
            THEN <<Sql("SELECT json_build_array(")>> \o ColumnSet_render(q.columns) \o <<Sql(")")>>
            ELSE <<>>
       [] OTHER ->
            IF Len(q.columns) > 0
            THEN <<Sql("SELECT")>> \o ColumnSet_render(q.columns)
            ELSE <<>>)
    \o <<Sql("FROM"), Ident(q.table), Ident(q.alias)>>
    \o FkJoinSet_render(q.joins)
    \o (IF Len(q.whereExps) > 0
        THEN <<Sql("WHERE")>> \o JoinText(TextAll(q.whereExps), Sql("AND"))
        ELSE <<>>)
    \o (IF Len(q.orderByExps) > 0
        THEN <<Sql("ORDER BY")>> \o JoinText(TextAll(q.orderByExps), Sql(","))
        ELSE <<>>)
    \o (IF q.limit # Nil THEN <<Sql("LIMIT")>> \o Text(q.limit) ELSE <<>>)
    \o (IF q.offset # Nil THEN <<Sql("OFFSET")>> \o Text(q.offset) ELSE <<>>)

Text(x) ==
    CASE x.e = "col"    -> <<Ident(x.alias), Sql("."), Ident(x.column)>>
      [] x.e = "jget"   -> Text(x.obj) \o <<Sql("->'" \o x.prop \o "'")>>
      [] x.e = "jtext"  -> Text(x.obj) \o <<Sql("->>'" \o x.prop \o "'")>>
      [] x.e = "cast"   -> <<Sql("(")>> \o Text(x.x) \o <<Sql(")::" \o x.ty)>>
      [] x.e = "param"  -> <<Dollar(x.k, x.v)>>
      [] x.e = "inline" -> <<Inline(x.v)>>
      [] x.e = "isnull" -> Text(x.x) \o <<Sql("IS NULL")>>
      [] x.e = "array"  -> <<Sql("array(")>> \o Text(x.q) \o <<Sql(")")>>
      [] x.e = "cmp"    -> Text(x.lhs) \o <<Sql(x.op)>> \o Text(x.rhs)
      [] x.e = "in"     -> Text(x.lhs) \o <<Sql(x.op), Sql("(")>>
                             \o JoinText(TextAll(x.list), Sql(",")) \o <<Sql(")")>>
      [] x.e = "starts_with" ->
            (IF x.neg THEN <<Sql("NOT")>> ELSE <<>>)
            \o <<Sql("starts_with(")>> \o Text(x.lhs) \o <<Sql(",")>> \o Text(x.rhs) \o <<Sql(")")>>
      [] x.e = "ends_with" ->
            <<Sql("right(")>> \o Text(x.lhs) \o <<Sql(", length(")>> \o Text(x.rhs)
            \o <<Sql("))"), Sql(IF x.neg THEN "!=" ELSE "=")>> \o Text(x.rhs)
      [] x.e = "contains" ->
            <<Sql("position(")>> \o Text(x.rhs) \o <<Sql("in")>> \o Text(x.lhs)
            \o <<Sql(IF x.neg THEN ") = 0" ELSE ") > 0")>>
      [] x.e = "order"  -> Text(x.x) \o <<Sql(x.dir)>>
      [] x.e = "and"    -> JoinText(TextAll(x.items), Sql("AND"))
      [] x.e = "or"     -> <<Sql("(")>> \o JoinText(TextAll(x.items), Sql("OR")) \o <<Sql(")")>>
      [] x.e = "paren"  -> <<Sql("(")>> \o Text(x.x) \o <<Sql(")")>>
      [] x.e = "some"   -> <<Sql("(SELECT true")>> \o Text(x.q) \o <<Sql("LIMIT 1)")>>
      [] x.e = "none"   -> <<Sql("(SELECT count(*) FROM"), Sql("(SELECT true")>> \o Text(x.q)
                             \o <<Sql("LIMIT 1)"), Ident(x.alias), Sql(") = 0")>>
      [] x.e = "every"  -> <<Sql("(SELECT count(*)")>> \o Text(x.a)
                             \o <<Sql(") = (SELECT count(*)")>> \o Text(x.b) \o <<Sql(")")>>
      [] x.e = "fts_match" -> <<Sql("phraseto_tsquery('english',")>> \o Text(x.textParam)
                             \o <<Sql(") @@")>> \o Text(x.tsv)
      [] x.e = "fts_union" ->
            <<Sql("SELECT")>> \o JoinText([i \in 1..Len(x.cols) |-> <<Sql(x.cols[i])>>], Sql(","))
            \o <<Sql("FROM (")>> \o JoinText(TextAll(x.srcSelects), Sql("UNION ALL"))
            \o <<Sql(") AS " \o x.alias), Sql("ORDER BY rank DESC")>>
            \o (IF x.limit # Nil THEN <<Sql("LIMIT")>> \o Text(x.limit) ELSE <<>>)
            \o (IF x.offset # Nil THEN <<Sql("OFFSET")>> \o Text(x.offset) ELSE <<>>)
      [] x.e = "select" -> SelectText(x)


\* ======================================================= scalars (casts)
\* the `scalars` registry: the scalar types that carry SQL casts
scalars == {"BigInt"}

toTransportCast(scalarType, sqlExp) ==
    IF scalarType \in scalars THEN [e |-> "cast", x |-> sqlExp, ty |-> "text"] ELSE sqlExp

fromTransportCast(scalarType, sqlExp) ==
    IF scalarType \in scalars THEN [e |-> "cast", x |-> sqlExp, ty |-> "numeric"] ELSE sqlExp

fromJsonCast(scalarType, objSqlExp, prop) ==
    CASE scalarType = "Int"   -> [e |-> "cast", x |-> [e |-> "jtext", obj |-> objSqlExp, prop |-> prop], ty |-> "integer"]
      [] scalarType = "Float" -> [e |-> "cast", x |-> [e |-> "jtext", obj |-> objSqlExp, prop |-> prop], ty |-> "numeric"]
      [] OTHER -> fromTransportCast(scalarType, [e |-> "jtext", obj |-> objSqlExp, prop |-> prop])

fromJsonToTransportCast(scalarType, objSqlExp, prop) ==
    CASE scalarType = "Int"   -> [e |-> "cast", x |-> [e |-> "jget", obj |-> objSqlExp, prop |-> prop], ty |-> "integer"]
      [] scalarType = "Float" -> [e |-> "cast", x |-> [e |-> "jget", obj |-> objSqlExp, prop |-> prop], ty |-> "numeric"]
      [] OTHER -> [e |-> "jtext", obj |-> objSqlExp, prop |-> prop]

\* ======================================================== where helpers
\* JavaScript values of the arguments: a number, undefined/null, an array,
\* or an object (a where-input: its own keys in order, plus AND and OR).
Undefined == [t |-> "undefined"]
Lit(n)    == [t |-> "lit", v |-> n]
Arr(xs)   == [t |-> "arr", items |-> xs]
Obj(conds, AND, OR) == [t |-> "obj", conds |-> conds, AND |-> AND, OR |-> OR]
Cond(field, suffix, arg) == [key |-> [field |-> field, suffix |-> suffix], arg |-> arg]

\* if (x): undefined, null and 0 are falsy; objects and arrays are truthy
Truthy(x) == CASE x.t = "undefined" -> FALSE
               [] x.t = "lit"       -> x.v # 0
               [] OTHER             -> TRUE

\* ensureArray(item)
ensureArray(item) == IF item.t = "arr" THEN item.items ELSE <<item>>

\* the key of a where-input as written: field, or field_suffix
KeyText(key) == IF key.suffix = "" THEN key.field ELSE key.field \o "_" \o key.suffix

\* parseWhereField(key): {op, field}; no suffix is the default operator '-'
parseWhereField(key) ==
    [field |-> key.field,
     op    |-> CASE key.suffix = ""    -> "-"
                 [] key.suffix = "not" -> "not_eq"
                 [] OTHER              -> key.suffix]

whereOpToSqlOperator(op) ==
    CASE op = "-"      -> "="
      [] op = "eq"     -> "="
      [] op = "not_eq" -> "!="
      [] op = "gt"     -> ">"
      [] op = "gte"    -> ">="
      [] op = "lt"     -> "<"
      [] op = "lte"    -> "<="
      [] op = "in"     -> "IN"
      [] op = "not_in" -> "NOT IN"

RECURSIVE hasConditions(_), some_hasConditions(_, _)
\* array.some(hasConditions): the first element that has conditions ends the
\* scan; an element on which hasConditions throws ends it with the error
some_hasConditions(items, i) ==
    IF i > Len(items) THEN "false"
    ELSE LET r == hasConditions(items[i])
         IN  IF r = "false" THEN some_hasConditions(items, i + 1) ELSE r

\* where.AND && where.AND.some(hasConditions): an object has no some()
some_of(x) ==
    CASE x.t = "undefined" -> "false"
      [] x.t = "arr"       -> some_hasConditions(x.items, 1)
      [] OTHER             -> "TypeError"

\* hasConditions(where): "true", "false", or the TypeError it throws
hasConditions(where) ==
    IF where.t = "undefined" THEN "false"
    ELSE IF Len(where.conds) > 0 THEN "true"
    ELSE LET a == some_of(where.AND)
         IN  IF a # "false" THEN a ELSE some_of(where.OR)

\* ========================================================= QueryBuilder
\* The mutable parts one planning pass threads through the walk:
\*   params, aliases (AliasSet), allocated (the aliases handed out),
\*   joins (the FkJoinSet of the select being built), err (a thrown error).
\* calls is the history of FkJoinSet.add: what was asked, what was answered.
NewBuilder == [params |-> <<>>, aliases |-> <<>>, allocated |-> <<>>,
               joins |-> <<>>, err |-> "", calls |-> <<>>]

\* param(value) that numbers the placeholder before pushing the value
param_before_push(S, value) ==
    [S |-> [S EXCEPT !.params = Append(@, value)],
     v |-> [e |-> "param", k |-> Len(S.params), v |-> value]]

\* QueryBuilder.param(value): '$' + this.params.push(value)
param(S, value) ==
    [S |-> [S EXCEPT !.params = Append(@, value)],
     v |-> [e |-> "param", k |-> Len(S.params) + 1, v |-> value]]

\* this.aliases.add(name) on the builder's AliasSet
aliases_add(S, name) ==
    LET r == AliasSet_add(S.aliases, name)
    IN  [S |-> [S EXCEPT !.aliases = r.aliases, !.allocated = Append(@, r.alias)],
         v |-> r.alias]

\* hasConditions as a condition of the planner: a throw aborts the pass
cond_hasConditions(S, where) ==
    LET r == hasConditions(where)
    IN  [S |-> IF r = "TypeError" /\ S.err = "" THEN [S EXCEPT !.err = r] ELSE S,
         v |-> (r = "true")]

\* ------------------------------------------------------------- FkJoinSet
\* joins: the entries of the Map in insertion order, each under its key
\* table + '  ' + on
FkJoinSet_key(table, on) == <<table, Text(on)>>

FkJoinSet_get(joins, key) == {i \in 1..Len(joins) : joins[i].key = key}

\* the branch of add that hands out an alias and keeps no entry
FkJoinSet_set_unkept(al, key, table, on) ==
    [S |-> [al.S EXCEPT !.calls = Append(@, [key |-> key, alias |-> al.v])],
     v |-> al.v]

\* the branch of add that creates the entry; al is this.aliases.add(table)
FkJoinSet_set(al, key, table, on) ==
    [S |-> [al.S EXCEPT !.joins = Append(@, [key |-> key, table |-> table, alias |-> al.v, on |-> on]),
                        !.calls = Append(@, [key |-> key, alias |-> al.v])],
     v |-> al.v]

\* FkJoinSet.add without the lookup: every call registers a join
FkJoinSet_add_keyed_nodedup(S, key, table, on) ==
    FkJoinSet_set(aliases_add(S, table), key, table, on)

\* FkJoinSet.add(table, on) once the key is built
FkJoinSet_add_keyed(S, key, table, on) ==
    IF FkJoinSet_get(S.joins, key) # {}
    THEN [S |-> [S EXCEPT !.calls =
                    Append(@, [key |-> key,
                               alias |-> S.joins[CHOOSE i \in FkJoinSet_get(S.joins, key) : TRUE].alias])],
          v |-> S.joins[CHOOSE i \in FkJoinSet_get(S.joins, key) : TRUE].alias]
    ELSE FkJoinSet_set(aliases_add(S, table), key, table, on)

\* FkJoinSet.add(table, on): the alias of the join keyed by table + on
FkJoinSet_add(S, table, on) == FkJoinSet_add_keyed(S, FkJoinSet_key(table, on), table, on)

\* ------------------------------------------------------------- ColumnSet
\* columns: the keys of the Map in insertion order (the column texts), each
\* with the expression it renders; the value of a key is its position - 1
ColumnSet_get(columns, text) == {i \in 1..Len(columns) : columns[i].text = text}

\* ColumnSet.add that answers with the size when the column is already there
ColumnSet_add_text_size(columns, text, column) ==
    IF ColumnSet_get(columns, text) # {}
    THEN [columns |-> columns, idx |-> Len(columns)]
    ELSE [columns |-> Append(columns, [text |-> text, expr |-> column]), idx |-> Len(columns)]

\* ColumnSet.add(column) once the column is rendered
ColumnSet_add_text(columns, text, column) ==
    IF ColumnSet_get(columns, text) # {}
    THEN [columns |-> columns, idx |-> (CHOOSE i \in ColumnSet_get(columns, text) : TRUE) - 1]
    ELSE [columns |-> Append(columns, [text |-> text, expr |-> column]), idx |-> Len(columns)]

\* ColumnSet.add(column): the zero-based index of the column
ColumnSet_add(columns, column) == ColumnSet_add_text(columns, Text(column), column)

\* ---------------------------------------------------------------- Cursor
NewCursor(object, alias, prefix) == [object |-> object, alias |-> alias, prefix |-> prefix]

Cursor_column(cur, name) ==
    [e |-> "col", alias |-> cur.alias, column |-> toColumn(name)]

Cursor_field(cur, name) ==
    IF cur.object.kind = "entity"
    THEN Cursor_column(cur, name)
    ELSE [e |-> "jget", obj |-> cur.prefix, prop |-> name]

Cursor_transport(cur, propName) ==
    LET prop == cur.object.properties[propName]
    IN  IF cur.object.kind = "object"
        THEN fromJsonToTransportCast(prop.name, cur.prefix, propName)
        ELSE toTransportCast(prop.name, Cursor_column(cur, propName))

Cursor_native(cur, propName) ==
    LET prop == cur.object.properties[propName]
    IN  IF cur.object.kind = "object"
        THEN fromJsonCast(prop.name, cur.prefix, propName)
        ELSE Cursor_column(cur, propName)

Cursor_fk(cur, propName) ==
    IF cur.object.kind = "entity"
    THEN [e |-> "col", alias |-> cur.alias, column |-> toFkColumn(propName)]
    ELSE fromJsonCast("ID", cur.prefix, propName)

Cursor_tsv(cur, queryName) ==
    [e |-> "col", alias |-> cur.alias, column |-> snakeCase(queryName) \o "_tsv"]

Cursor_doc(cur, queryName) ==
    [e |-> "col", alias |-> cur.alias, column |-> snakeCase(queryName) \o "_doc"]

\* the cursor of a foreign entity; j is this.join.add(table, this.fk(propName))
Cursor_joined(j, object) == [S |-> j.S, v |-> NewCursor(object, j.v, Nil)]

\* Cursor.child(propName): [S, v: the cursor of the child]
Cursor_child(S, cur, propName) ==
    IF cur.object.properties[propName].kind = "object"
    THEN [S |-> S,
          v |-> NewCursor(Model[cur.object.properties[propName].name], cur.alias,
                          Cursor_field(cur, propName))]
    ELSE \* fk
         Cursor_joined(FkJoinSet_add(S, toTable(cur.object.properties[propName].foreignEntity),
                                     Cursor_fk(cur, propName)),
                       Model[cur.object.properties[propName].foreignEntity])


\* -------------------------------------------------------------- order by
\* The order-by input is a list of <path>_<ASC|DESC> values; parseOrderBy
\* turns it into the tree {key: 'ASC'|'DESC'|tree}, keys in order of arrival.
OrderItem(path, dir) == [path |-> path, dir |-> dir]

RECURSIVE orderBy_put(_, _, _)
orderBy_put(tree, path, dir) ==
    LET at == {i \in 1..Len(tree) : tree[i].key = path[1]}
    IN  IF Len(path) = 1
        THEN IF at = {} THEN Append(tree, [key |-> path[1], spec |-> [t |-> "dir", dir |-> dir]])
             ELSE tree
        ELSE IF at = {}
             THEN Append(tree, [key |-> path[1],
                                spec |-> [t |-> "tree", items |-> orderBy_put(<<>>, Tail(path), dir)]])
             ELSE LET i == CHOOSE j \in at : TRUE
                  IN  IF tree[i].spec.t = "tree"
                      THEN [tree EXCEPT ![i].spec.items = orderBy_put(@, Tail(path), dir)]
                      ELSE tree

RECURSIVE parseOrderBy_from(_, _, _)
parseOrderBy_from(input, i, tree) ==
    IF i > Len(input) THEN tree
    ELSE parseOrderBy_from(input, i + 1, orderBy_put(tree, input[i].path, input[i].dir))

parseOrderBy(input) == parseOrderBy_from(input, 1, <<>>)

\* list arguments: {where, orderBy, limit, offset}
ListArgs(where, orderBy, limit, offset) ==
    [where |-> where, orderBy |-> orderBy, limit |-> limit, offset |-> offset]
NoArgs == ListArgs(Undefined, Undefined, Undefined, Undefined)
WhereArgs(where) == ListArgs(where, Undefined, Undefined, Undefined)

\* select variants
NoVariant == [kind |-> "list"]
ListSubquery(field, parent) == [kind |-> "list-subquery", field |-> field, parent |-> parent]
Fts(textParam, queryName) == [kind |-> "fts", textParam |-> textParam, queryName |-> queryName]

\* ------------------------------------------------------ the planner walk
\* A method takes what it reads and what it changes (the
\* builder S next to the collections it fills in) as one record r and
\* returns that record as the method leaves it.  An exception (S.err) ends
\* every loop and every method on its way up.
RECURSIVE select(_, _, _, _, _)
RECURSIVE generateWhere(_, _, _)
RECURSIVE addPropCondition(_, _, _, _, _)
RECURSIVE populateOrderBy(_, _, _, _)
RECURSIVE populateOrderBy_key(_, _, _)
RECURSIVE populateColumns(_, _, _)
RECURSIVE populateRequests(_, _, _, _)
RECURSIVE populateRequest(_, _, _, _)
RECURSIVE param_list(_, _, _, _)
RECURSIVE addPropCondition_keys(_, _, _, _)
RECURSIVE generateWhere_keys(_, _, _, _)
RECURSIVE generateWhere_forEach(_, _, _, _, _)

Threw(r) == r.S.err # ""

\* one key of orderBy in populateOrderBy; r: [S, exps]
populateOrderBy_key(r, cursor, item) ==
    LET Down(cu) == populateOrderBy([S |-> cu.S, exps |-> r.exps], cu.v, item.spec.items, 1)
    IN  IF cursor.object.properties[item.key].kind = "scalar"
        THEN [r EXCEPT !.exps = Append(@, [e |-> "order",
                                           x |-> Cursor_native(cursor, item.key),
                                           dir |-> item.spec.dir])]
        ELSE \* object, fk
             Down(Cursor_child(r.S, cursor, item.key))

\* QueryBuilder.populateOrderBy(exps, cursor, orderBy), from key i on
populateOrderBy(r, cursor, orderBy, i) ==
    IF i > Len(orderBy) THEN r
    ELSE populateOrderBy(populateOrderBy_key(r, cursor, orderBy[i]), cursor, orderBy, i + 1)

\* request j of field i in populateColumns; r: [S, columns, fields]
populateRequest(r, cursor, i, j) ==
    LET field == r.fields[i]
        req   == r.fields[i].requests[j]
        \* req.index = columns.add(expr), children as the walk left them
        Put(S2, columns2, idx, expr, children) ==
            [S |-> S2, columns |-> columns2,
             fields |-> [r.fields EXCEPT ![i].requests[j] =
                            [@ EXCEPT !.index = idx, !.expr = expr, !.children = children]]]
        Plain(c, expr) == Put(r.S, c.columns, c.idx, expr, req.children)
        \* ... followed by this.populateColumns(columns, cu, req.children)
        Walked(c, expr, sub) == Put(sub.S, sub.columns, c.idx, expr, sub.fields)
        Walk(c, expr, cu) ==
            Walked(c, expr, populateColumns([S |-> cu.S, columns |-> c.columns,
                                             fields |-> req.children], cu.v, 1))
        Added(expr, cu) == Walk(ColumnSet_add(r.columns, expr), expr, cu)
        OfFk(cu) == Added(Cursor_transport(cu.v, "id"), cu)
        OfScalar(expr) == Plain(ColumnSet_add(r.columns, expr), expr)
        \* 'array(' + this.select(...) + ')'
        Listed(c, sub) == Put(sub.S, c.columns, c.idx, [e |-> "array", q |-> sub.q], sub.fields)
        OfList(sub) ==
            IF sub.S.err # "" THEN [r EXCEPT !.S = sub.S]
            ELSE Listed(ColumnSet_add(r.columns, [e |-> "array", q |-> sub.q]), sub)
    IN  CASE field.propType.kind = "scalar" ->
                OfScalar(Cursor_transport(cursor, field.name))
          [] field.propType.kind = "object" ->
                Added([e |-> "isnull", x |-> Cursor_field(cursor, field.name)],
                      Cursor_child(r.S, cursor, field.name))
          [] field.propType.kind = "fk" ->
                OfFk(Cursor_child(r.S, cursor, field.name))
          [] field.propType.kind = "list-relation" ->
                OfList(select(r.S, field.propType.entity, req.args, req.children,
                              ListSubquery(field.propType.field, Cursor_native(cursor, "id"))))

\* for (let i = 0; i < field.requests.length; i++), from request j on
populateRequests(r, cursor, i, j) ==
    CASE r.S.err # "" -> r
      [] j > Len(r.fields[i].requests) -> r
      [] OTHER -> populateRequests(populateRequest(r, cursor, i, j), cursor, i, j + 1)

\* QueryBuilder.populateColumns(columns, cursor, fields$), from field i on
populateColumns(r, cursor, i) ==
    CASE r.S.err # "" -> r
      [] i > Len(r.fields) -> r
      [] OTHER -> populateColumns(populateRequests(r, cursor, i, 1), cursor, i + 1)

\* ensureArray(arg).map(a => fromTransportCast(typeName, this.param(a)));
\* r: [S, v: the list so far]
param_list(r, typeName, items, i) ==
    LET Mapped(p) == [S |-> p.S, v |-> Append(r.v, fromTransportCast(typeName, p.v))]
    IN  IF i > Len(items) THEN r
        ELSE param_list(Mapped(param(r.S, items[i])), typeName, items, i + 1)

\* QueryBuilder.addPropCondition(exps, cursor, field, op, arg); r: [S, exps]
addPropCondition(r, cursor, field, op, arg) ==
    LET Push(S2, exp) == [S |-> S2, exps |-> Append(r.exps, exp)]
        List(l) == Push(l.S, [e |-> "in", lhs |-> Cursor_native(cursor, field),
                              op |-> whereOpToSqlOperator(op), list |-> l.v])
        String(p, fn, neg) == Push(p.S, [e |-> fn, neg |-> neg,
                                         lhs |-> Cursor_native(cursor, field), rhs |-> p.v])
        Compare_(p) == Push(p.S, [e |-> "cmp", lhs |-> Cursor_native(cursor, field),
                                  op |-> whereOpToSqlOperator(op),
                                  rhs |-> fromTransportCast(
                                              cursor.object.properties[field].name, p.v)])
        Embedded(cu) == addPropCondition_keys([r EXCEPT !.S = cu.S], cu.v, arg, 1)
        Sub(g) == IF g.S.err # "" THEN [r EXCEPT !.S = g.S] ELSE Push(g.S, g.v)
        Joined(cu) == Sub(generateWhere(cu.S, cu.v, arg))
        Foreign(hc) == IF hc.v THEN Joined(Cursor_child(hc.S, cursor, field))
                               ELSE [r EXCEPT !.S = hc.S]
    IN  CASE cursor.object.properties[field].kind = "scalar" ->
            (CASE op \in {"in", "not_in"} ->
                        List(param_list([S |-> r.S, v |-> <<>>],
                                        cursor.object.properties[field].name,
                                        ensureArray(arg), 1))
               [] op \in {"startsWith", "not_startsWith"} ->
                        String(param(r.S, arg), "starts_with", op = "not_startsWith")
               [] op \in {"endsWith", "not_endsWith"} ->
                        String(param(r.S, arg), "ends_with", op = "not_endsWith")
               [] op \in {"contains", "not_contains"} ->
                        String(param(r.S, arg), "contains", op = "not_contains")
               [] OTHER ->
                        Compare_(param(r.S, arg)))
          [] cursor.object.properties[field].kind = "object" ->
                Embedded(Cursor_child(r.S, cursor, field))
          [] cursor.object.properties[field].kind = "fk" ->
                Foreign(cond_hasConditions(r.S, arg))

\* this.addPropCondition(exps, cu, f.field, f.op, arg[key]), f parsed from key
addPropCondition_key(r, cu, cond, f) ==
    addPropCondition(r, cu, f.field, f.op, cond.arg)

\* for (let key in arg) of an embedded object, from key i on
addPropCondition_keys(r, cu, arg, i) ==
    CASE r.S.err # "" -> r
      [] i > Len(arg.conds) -> r
      [] OTHER -> addPropCondition_keys(
                      addPropCondition_key(r, cu, arg.conds[i],
                                           parseWhereField(arg.conds[i].key)),
                      cu, arg, i + 1)

\* one key of the conditions in generateWhere, f parsed from it; r: [S, exps]
generateWhere_key(r, cursor, cond, f) ==
    LET Push(S2, exp) == [S |-> S2, exps |-> Append(r.exps, exp)]
        \* this.select(rel.entity, args, undefined, {kind: 'list-subquery', ...})
        Related(S2, args) ==
            select(S2, cursor.object.properties[f.field].entity, args, <<>>,
                             ListSubquery(cursor.object.properties[f.field].field,
                                          Cursor_native(cursor, "id")))
        Counted(conditionedFrom, allFrom) ==
            Push(allFrom.S, [e |-> "every", a |-> conditionedFrom.q, b |-> allFrom.q])
        All(conditionedFrom) ==
            IF conditionedFrom.S.err # "" THEN [r EXCEPT !.S = conditionedFrom.S]
            ELSE Counted(conditionedFrom, Related(conditionedFrom.S, NoArgs))
        Every(hc) == IF hc.v THEN All(Related(hc.S, WhereArgs(cond.arg)))
                             ELSE [r EXCEPT !.S = hc.S]
        Some(q) == Push(q.S, [e |-> "some", q |-> q.q])
        Aliased(q, a) == Push(a.S, [e |-> "none", q |-> q.q, alias |-> a.v])
        None(q) == Aliased(q, aliases_add(q.S, KeyText(cond.key)))
        SomeOrNone(q) == CASE q.S.err # "" -> [r EXCEPT !.S = q.S]
                           [] f.op = "some" -> Some(q)
                           [] OTHER -> None(q)
    IN  CASE f.op = "every" -> Every(cond_hasConditions(r.S, cond.arg))
          [] f.op \in {"some", "none"} -> SomeOrNone(Related(r.S, WhereArgs(cond.arg)))
          [] OTHER -> addPropCondition(r, cursor, f.field, f.op, cond.arg)

\* for (let key in conditions), from key i on
generateWhere_keys(r, cursor, conds, i) ==
    CASE r.S.err # "" -> r
      [] i > Len(conds) -> r
      [] OTHER -> generateWhere_keys(
                      generateWhere_key(r, cursor, conds[i], parseWhereField(conds[i].key)),
                      cursor, conds, i + 1)

\* the callback of ensureArray(AND).forEach / ensureArray(OR).forEach:
\* if (hasConditions(w)) exps.push(this.generateWhere(cursor, w)), in
\* parentheses for OR
generateWhere_each(r, cursor, w, paren) ==
    LET Pushed(g) ==
            IF g.S.err # "" THEN [r EXCEPT !.S = g.S]
            ELSE [S |-> g.S,
                  exps |-> Append(r.exps, IF paren THEN [e |-> "paren", x |-> g.v] ELSE g.v)]
        Checked(hc) == IF hc.v THEN Pushed(generateWhere(hc.S, cursor, w))
                               ELSE [r EXCEPT !.S = hc.S]
    IN  Checked(cond_hasConditions(r.S, w))

\* ensureArray(AND).forEach(...) / ensureArray(OR).forEach(...), from i on
generateWhere_forEach(r, cursor, items, paren, i) ==
    CASE r.S.err # "" -> r
      [] i > Len(items) -> r
      [] OTHER -> generateWhere_forEach(generateWhere_each(r, cursor, items[i], paren),
                                        cursor, items, paren, i + 1)

\* QueryBuilder.generateWhere(cursor, where): [S, v: the predicate]
generateWhere(S, cursor, where) ==
    LET Ored(o) == [S |-> o.S, v |-> [e |-> "or", items |-> o.exps]]
        \* if (OR) ... else return exps.join(' AND ')
        Anded(a) ==
            IF Truthy(where.OR) /\ ~Threw(a)
            THEN Ored(generateWhere_forEach(
                          [S |-> a.S,
                           exps |-> <<[e |-> "paren", x |-> [e |-> "and", items |-> a.exps]]>>],
                          cursor, ensureArray(where.OR), TRUE, 1))
            ELSE [S |-> a.S, v |-> [e |-> "and", items |-> a.exps]]
        \* if (AND) ...
        Keyed(c) ==
            Anded(IF Truthy(where.AND) /\ ~Threw(c)
                  THEN generateWhere_forEach(c, cursor, ensureArray(where.AND), FALSE, 1)
                  ELSE c)
    IN  Keyed(generateWhere_keys([S |-> S, exps |-> <<>>], cursor, where.conds, 1))

\* QueryBuilder.select(entityName, args, fields, variant):
\* [S, q: the statement, fields: the field tree with the indexes recorded]
select(S, entityName, args, fields, variant) ==
    LET \* an exception leaves select without a statement
        Thrown(S2) == [S |-> S2, fields |-> fields, q |-> Nil]
        Statement(cursor, pc, w, ob, lim, off) ==
            [S |-> [off.S EXCEPT !.joins = S.joins],
             fields |-> pc.fields,
             q |-> [e |-> "select", variant |-> variant.kind, entity |-> entityName,
                    tsv |-> IF variant.kind = "fts" THEN Cursor_tsv(cursor, variant.queryName) ELSE Nil,
                    doc |-> IF variant.kind = "fts" THEN Cursor_doc(cursor, variant.queryName) ELSE Nil,
                    textParam |-> IF variant.kind = "fts" THEN variant.textParam ELSE Nil,
                    columns |-> pc.columns, table |-> toTable(entityName), alias |-> cursor.alias,
                    joins |-> off.S.joins, whereExps |-> w.exps, orderByExps |-> ob.exps,
                    limit |-> lim.v, offset |-> off.v]]
        \* if (args.offset) out += '\nOFFSET ' + this.param(args.offset)
        Offset(cursor, pc, w, ob, lim) ==
            Statement(cursor, pc, w, ob, lim,
                      IF Truthy(args.offset) THEN param(lim.S, args.offset)
                                             ELSE [S |-> lim.S, v |-> Nil])
        \* if (args.limit) out += '\nLIMIT ' + this.param(args.limit)
        Limit(cursor, pc, w, ob) ==
            Offset(cursor, pc, w, ob,
                   IF Truthy(args.limit) THEN param(ob.S, args.limit)
                                         ELSE [S |-> ob.S, v |-> Nil])
        \* let orderByInput = args.orderBy && ensureArray(args.orderBy)
        \* if (orderByInput?.length) this.populateOrderBy(...)
        OrderBy(cursor, pc, w) ==
            Limit(cursor, pc, w,
                  IF Truthy(args.orderBy) /\ Len(ensureArray(args.orderBy)) > 0
                  THEN populateOrderBy([S |-> w.S, exps |-> <<>>], cursor,
                                       parseOrderBy(ensureArray(args.orderBy)), 1)
                  ELSE [S |-> w.S, exps |-> <<>>])
        \* the predicates the variant adds after the where of the arguments
        VariantWhere(cursor, pc, S2, whereExps) ==
            OrderBy(cursor, pc,
                [S |-> S2,
                 exps |-> whereExps
                    \o (IF variant.kind = "list-subquery"
                        THEN <<[e |-> "cmp", lhs |-> Cursor_fk(cursor, variant.field),
                                op |-> "=", rhs |-> variant.parent]>>
                        ELSE <<>>)
                    \o (IF variant.kind = "fts"
                        THEN <<[e |-> "fts_match", textParam |-> variant.textParam,
                                tsv |-> Cursor_tsv(cursor, variant.queryName)]>>
                        ELSE <<>>)])
        Generated(cursor, pc, g) ==
            IF g.S.err # "" THEN Thrown(g.S) ELSE VariantWhere(cursor, pc, g.S, <<g.v>>)
        \* if (hasConditions(args.where)) whereExps.push(this.generateWhere(...))
        Where_(cursor, pc, hc) ==
            CASE hc.S.err # "" -> Thrown(hc.S)
              [] hc.v -> Generated(cursor, pc, generateWhere(hc.S, cursor, args.where))
              [] OTHER -> VariantWhere(cursor, pc, hc.S, <<>>)
        Columns(cursor, pc) ==
            IF pc.S.err # "" THEN Thrown(pc.S)
            ELSE Where_(cursor, pc, cond_hasConditions(pc.S, args.where))
        \* let join = new FkJoinSet(this.aliases); if (fields) this.populateColumns(...)
        From(S2, cursor) ==
            Columns(cursor, populateColumns([S |-> [S2 EXCEPT !.joins = <<>>],
                                             columns |-> <<>>, fields |-> fields],
                                            cursor, 1))
    IN  From(aliases_add(S, toTable(entityName)).S,
             NewCursor(getEntity(entityName), AliasSet_add(S.aliases, toTable(entityName)).alias, Nil))


\* ------------------------------------------------------ full-text search
RECURSIVE fulltextSearchSelect_sources(_, _, _, _, _, _)
\* query.sources.forEach(src => srcSelects.push(this.select(...))), from i
\* on; r: [S, v: srcSelects]
fulltextSearchSelect_sources(r, sources, args, fields, variant, i) ==
    LET \* $fields.item?.[src.entity]
        selected == fields.hasItem /\ sources[i].entity \in DOMAIN fields.item
        \* populateColumns leaves the indexes in the requests of $fields.item
        Pushed(sql) == IF Threw(sql) THEN [r EXCEPT !.S = sql.S]
                       ELSE [S |-> sql.S, v |-> Append(r.v, sql.q),
                             item |-> IF selected
                                      THEN (sources[i].entity :> sql.fields) @@ r.item
                                      ELSE r.item]
    IN  IF i > Len(sources) \/ Threw(r) THEN r
        ELSE fulltextSearchSelect_sources(
                 Pushed(select(r.S, sources[i].entity, WhereArgs(args.where[sources[i].entity]),
                               IF selected THEN fields.item[sources[i].entity] ELSE <<>>,
                               variant)),
                 sources, args, fields, variant, i + 1)

\* limit != null
NotNullish(x) == x.t # "undefined"

\* QueryBuilder.fulltextSearchSelect(queryName, args, $fields)
fulltextSearchSelect(S, queryName, args, fields) ==
    LET query == getFtsQuery(queryName)
        cols  == <<"isTypeOf", "rank">>
                 \o (IF fields.highlight THEN <<"highlight">> ELSE <<>>)
                 \o (IF fields.hasItem THEN <<"item">> ELSE <<>>)
        Statement(srcs, al, lim, off) ==
            [S |-> off.S, fields |-> <<>>, item |-> srcs.item,
             q |-> [e |-> "fts_union", cols |-> cols, srcSelects |-> srcs.v, alias |-> al.v,
                    limit |-> lim.v, offset |-> off.v]]
        \* if (offset != null) sql += ` OFFSET ${this.param(offset)}`
        Offset(srcs, al, lim) ==
            Statement(srcs, al, lim,
                      IF NotNullish(args.offset) THEN param(lim.S, args.offset)
                                                 ELSE [S |-> lim.S, v |-> Nil])
        \* if (limit != null) sql += ` LIMIT ${this.param(limit)}`
        Limit(srcs, al) ==
            Offset(srcs, al,
                   IF NotNullish(args.limit) THEN param(al.S, args.limit)
                                             ELSE [S |-> al.S, v |-> Nil])
        Union(srcs) == IF Threw(srcs) THEN [S |-> srcs.S, fields |-> <<>>, item |-> <<>>, q |-> Nil]
                       ELSE Limit(srcs, aliases_add(srcs.S, "tsv"))
        Sources(textParam) ==
            Union(fulltextSearchSelect_sources([S |-> textParam.S, v |-> <<>>, item |-> <<>>], query.sources,
                                               args, fields, Fts(textParam.v, queryName), 1))
    IN  Sources(param(S, args.text))


\* ============================================================== database
\* The tables the statements are run on.  account.extra is the JSON column
\* of the embedded object; historical_balance.account_id is NOT NULL and
\* references account.id.
AccountRows ==
    {[id |-> 1, wallet |-> 1, balance |-> 10, extra |-> [isNull |-> FALSE, score |-> 7]],
     [id |-> 2, wallet |-> 2, balance |-> 60, extra |-> [isNull |-> TRUE, score |-> 0]]}

HistoricalBalanceRows ==
    {[id |-> 1, account_id |-> 1, balance |-> 10],
     [id |-> 2, account_id |-> 1, balance |-> 60],
     [id |-> 3, account_id |-> 2, balance |-> 60]}

Databases ==
    {[account |-> AccountRows, historical_balance |-> h] : h \in SUBSET HistoricalBalanceRows}

\* SQL values: a number or NULL
SqlNull == [null |-> TRUE, n |-> 0]
Num(n)  == [null |-> FALSE, n |-> n]

\* what an alias is bound to while a row is examined: a row of its table,
\* or nothing (the all-NULL side of a LEFT OUTER JOIN)
Bind(row) == [present |-> TRUE, row |-> row]
Absent    == [present |-> FALSE, row |-> <<>>]

\* the value of a scalar SQL expression
RECURSIVE Val(_, _)
Val(x, env) ==
    CASE x.e = "col" ->
            IF env[x.alias].present THEN Num(env[x.alias].row[x.column]) ELSE SqlNull
      [] x.e \in {"jget", "jtext"} ->
            LET b == env[x.obj.alias]
            IN  IF b.present /\ ~b.row[x.obj.column].isNull
                THEN Num(b.row[x.obj.column][x.prop]) ELSE SqlNull
      [] x.e = "cast"  -> Val(x.x, env)
      [] x.e = "param" -> IF x.v.t = "lit" THEN Num(x.v.v) ELSE SqlNull

\* three-valued comparison: "T", "F", or "N" (NULL)
Compare(l, op, r) ==
    IF l.null \/ r.null THEN "N"
    ELSE LET b == CASE op = "="  -> l.n = r.n
                    [] op = "!=" -> l.n # r.n
                    [] op = "<"  -> l.n < r.n
                    [] op = "<=" -> l.n <= r.n
                    [] op = ">"  -> l.n > r.n
                    [] op = ">=" -> l.n >= r.n
         IN  IF b THEN "T" ELSE "F"

Not3(t) == CASE t = "T" -> "F" [] t = "F" -> "T" [] OTHER -> "N"

And3(ts) == IF "F" \in ts THEN "F" ELSE IF "N" \in ts THEN "N" ELSE "T"

Or3(ts) == IF "T" \in ts THEN "T" ELSE IF "N" \in ts THEN "N" ELSE "F"

RECURSIVE JoinEnv(_, _, _, _)
\* the LEFT OUTER JOINs of a statement, in order: alias."id" = on
JoinEnv(joins, i, env, db) ==
    IF i > Len(joins) THEN env
    ELSE LET v == Val(joins[i].on, env)
             m == {r \in db[joins[i].table] : ~v.null /\ r.id = v.n}
         IN  JoinEnv(joins, i + 1,
                     (joins[i].alias :> (IF m = {} THEN Absent ELSE Bind(CHOOSE r \in m : TRUE))) @@ env,
                     db)

RECURSIVE Truth(_, _, _), Rows(_, _, _)
\* the rows FROM ... JOIN ... WHERE ... of a statement, enclosing row in env
Rows(q, env, db) ==
    {en \in {JoinEnv(q.joins, 1, (q.alias :> Bind(r)) @@ env, db) : r \in db[q.table]} :
        \A i \in 1..Len(q.whereExps) : Truth(q.whereExps[i], en, db) = "T"}

\* the truth value of a predicate of the WHERE clause
Truth(x, env, db) ==
    CASE x.e = "cmp"   -> Compare(Val(x.lhs, env), x.op, Val(x.rhs, env))
      [] x.e = "in"    ->
            LET ts == {Compare(Val(x.lhs, env), "=", Val(x.list[i], env)) : i \in 1..Len(x.list)}
            IN  IF x.op = "IN" THEN Or3(ts) ELSE Not3(Or3(ts))
      [] x.e = "and"   -> And3({Truth(x.items[i], env, db) : i \in 1..Len(x.items)})
      [] x.e = "or"    -> Or3({Truth(x.items[i], env, db) : i \in 1..Len(x.items)})
      [] x.e = "paren" -> Truth(x.x, env, db)
      [] x.e = "some"  -> IF Rows(x.q, env, db) # {} THEN "T" ELSE "N"
      [] x.e = "none"  -> IF Rows(x.q, env, db) = {} THEN "T" ELSE "F"
      [] x.e = "every" -> IF Cardinality(Rows(x.a, env, db)) = Cardinality(Rows(x.b, env, db))
                          THEN "T" ELSE "F"

\* what the parser of the database accepts: every operand is there
RECURSIVE WellFormed(_)
WellFormed(x) ==
    CASE x.e \in {"and", "or"} ->
            /\ x.e = "and" => Len(x.items) > 0
            /\ \A i \in 1..Len(x.items) : WellFormed(x.items[i])
      [] x.e = "paren" -> WellFormed(x.x)
      [] x.e = "in"    -> Len(x.list) > 0
      [] x.e \in {"some", "none"} -> WellFormed(x.q)
      [] x.e = "every" -> WellFormed(x.a) /\ WellFormed(x.b)
      [] x.e = "array" -> Len(x.q.columns) > 0 /\ WellFormed(x.q)
      [] x.e = "select" ->
            /\ \A i \in 1..Len(x.columns) : WellFormed(x.columns[i].expr)
            /\ \A i \in 1..Len(x.whereExps) : WellFormed(x.whereExps[i])
      [] x.e = "fts_union" ->
            \A i \in 1..Len(x.srcSelects) : WellFormed(x.srcSelects[i])
      [] OTHER -> TRUE

\* the predicates whose value the model computes (numbers only)
RECURSIVE Computed(_)
Computed(x) ==
    CASE x.e \in {"and", "or"} -> \A i \in 1..Len(x.items) : Computed(x.items[i])
      [] x.e = "paren" -> Computed(x.x)
      [] x.e \in {"some", "none"} -> Computed(x.q)
      [] x.e = "every" -> Computed(x.a) /\ Computed(x.b)
      [] x.e = "select" -> \A i \in 1..Len(x.whereExps) : Computed(x.whereExps[i])
      [] x.e \in {"cmp", "in"} -> TRUE
      [] OTHER -> FALSE

\* the ids of the rows of the top-level statement that pass its WHERE
Matched(q, db) == {en[q.alias].row.id : en \in Rows(q, <<>>, db)}

\* the cut of LIMIT / OFFSET: how many of n rows come back
Page(q, n) ==
    LET skip == IF q.offset = Nil THEN 0 ELSE q.offset.v.v
        left == IF n > skip THEN n - skip ELSE 0
    IN  IF q.limit = Nil THEN left
        ELSE IF q.limit.v.v < left THEN q.limit.v.v ELSE left


\* ================================================================ inputs
\* a where-input with keys only
Where(conds) == Obj(conds, Undefined, Undefined)

\* a request of the requested-field tree, as collectRequestedFields leaves
\* it (index: 0); expr records the column expression planned for it
Request(alias, args, children) ==
    [alias |-> alias, index |-> 0, expr |-> Nil, args |-> args, children |-> children]

Field(object, name, requests) ==
    [name |-> name, propType |-> Model[object].properties[name], requests |-> requests]

Leaf(object, name) == Field(object, name, <<Request(name, NoArgs, <<>>)>>)

\* where-inputs of HistoricalBalance
HistoricalBalanceWheres ==
    {Where(<<Cond("balance", "gt", Lit(50))>>),
     Where(<<Cond("account", "", Where(<<Cond("balance", "lt", Lit(50))>>))>>),
     Where(<<>>),
     Where(<<Cond("account", "", Where(<<>>))>>),
     Obj(<<>>, Undefined, Arr(<<Where(<<Cond("balance", "in", Arr(<<Lit(10)>>))>>)>>)),
     Obj(<<>>, Where(<<Cond("balance", "lt", Lit(50))>>), Undefined),
     Obj(<<Cond("balance", "", Lit(60))>>,
         Arr(<<Where(<<Cond("id", "not_in", Arr(<<Lit(1)>>))>>)>>),
         Arr(<<Where(<<Cond("balance", "not", Lit(10))>>)>>))}

RelationOps == {"every", "some", "none"}

\* where-inputs of Account
AccountWheres ==
    {Where(<<Cond("history", op, w)>>) : op \in RelationOps, w \in HistoricalBalanceWheres}
    \cup {Where(<<Cond("wallet", op, Lit(1))>>) :
            op \in {"startsWith", "not_startsWith", "endsWith", "not_endsWith",
                    "contains", "not_contains"}}
    \cup {Where(<<>>),
          Where(<<Cond("balance", "gte", Lit(60))>>),
          Where(<<Cond("extra", "", Where(<<Cond("score", "lt", Lit(9))>>))>>),
          Where(<<Cond("extra", "", Where(<<>>))>>),
          Where(<<Cond("id", "in", Arr(<<>>))>>),
          Where(<<Cond("id", "in", Lit(2))>>),
          Obj(<<>>, Undefined, Arr(<<>>)),
          Obj(<<>>, Arr(<<Where(<<>>)>>), Undefined),
          Obj(<<Cond("id", "", Lit(1))>>,
              Where(<<Cond("balance", "lte", Lit(60))>>),
              Where(<<Cond("wallet", "eq", Lit(2))>>))}

\* requested-field trees
AccountId == <<Leaf("Account", "id")>>

AccountTree(historyArgs) ==
    <<Field("Account", "history",
            <<Request("history", historyArgs,
                      <<Field("HistoricalBalance", "account",
                              <<Request("account", NoArgs, <<Leaf("Account", "id")>>)>>),
                        Leaf("HistoricalBalance", "balance")>>),
              Request("recent", WhereArgs(Where(<<Cond("balance", "gt", Lit(50))>>)),
                      <<Leaf("HistoricalBalance", "id"),
                        Field("HistoricalBalance", "account",
                              <<Request("account", NoArgs, <<Leaf("Account", "wallet")>>)>>)>>)>>),
      Leaf("Account", "id"),
      Leaf("Account", "balance"),
      Field("Account", "extra",
            <<Request("extra", NoArgs, <<Leaf("Extra", "score")>>)>>)>>

HistoricalBalanceTree ==
    <<Leaf("HistoricalBalance", "balance"),
      Field("HistoricalBalance", "account",
            <<Request("account", NoArgs, <<Leaf("Account", "id"), Leaf("Account", "wallet")>>),
              Request("owner", NoArgs, <<Leaf("Account", "wallet")>>)>>)>>

MaxLimit == 1   \* the largest limit / offset argument

Pagination == {Undefined} \cup {Lit(n) : n \in 0..MaxLimit}

SelectRequest(entity, args, fields) ==
    [kind |-> "select", entity |-> entity, args |-> args, fields |-> fields]

FtsRequest(args, fields) ==
    [kind |-> "fts", queryName |-> "search", args |-> args, ftsFields |-> fields]

\* orderBy lists on HistoricalBalance; in the last, two entries go through
\* account with another entry between them
OrderByLists ==
    {<<OrderItem(<<"balance">>, "DESC")>>,
     <<OrderItem(<<"account", "wallet">>, "ASC"), OrderItem(<<"balance">>, "DESC")>>,
     <<OrderItem(<<"account", "wallet">>, "ASC"), OrderItem(<<"balance">>, "DESC"),
       OrderItem(<<"account", "id">>, "ASC")>>}

SelectRequests ==
    {SelectRequest("HistoricalBalance", ListArgs(Undefined, Arr(ob), Undefined, Undefined),
                   <<Leaf("HistoricalBalance", "balance")>>) : ob \in OrderByLists}
    \cup {SelectRequest("Account", WhereArgs(w), AccountId) : w \in AccountWheres \cup {Undefined}}
    \cup {SelectRequest("Account",
                        ListArgs(Undefined, Undefined, l, o),
                        AccountTree(ListArgs(w, ob, l, Undefined))) :
            l \in Pagination, o \in Pagination,
            w \in {Undefined, Where(<<Cond("balance", "lt", Lit(50))>>)},
            ob \in {Undefined, Arr(<<OrderItem(<<"account", "balance">>, "DESC"),
                                      OrderItem(<<"balance">>, "ASC")>>)}}
    \cup {SelectRequest("HistoricalBalance",
                        ListArgs(w, Arr(<<OrderItem(<<"account", "wallet">>, "ASC"),
                                          OrderItem(<<"account", "extra", "score">>, "DESC")>>),
                                 Undefined, Undefined),
                        HistoricalBalanceTree) :
            w \in HistoricalBalanceWheres}

FtsRequests ==
    {FtsRequest([text |-> Lit(7), limit |-> l, offset |-> o,
                 where |-> [Account |-> wa, HistoricalBalance |-> wh]],
                [highlight |-> hl, hasItem |-> it,
                 item |-> [Account |-> AccountId, HistoricalBalance |-> HistoricalBalanceTree]]) :
        l \in Pagination, o \in {Undefined, Lit(1)},
        wa \in {Undefined, Where(<<Cond("balance", "gte", Lit(60))>>)},
        wh \in {Undefined, Where(<<Cond("balance", "gt", Lit(50))>>)},
        hl \in BOOLEAN, it \in BOOLEAN}

WhereInputs ==
    {[entity |-> "Account", where |-> w] : w \in AccountWheres}
    \cup {[entity |-> "HistoricalBalance", where |-> w] : w \in HistoricalBalanceWheres}


\* =================================================== executing a request
SelIdle ==
    /\ request = [kind |-> "none"]
    /\ database = [account |-> {}, historical_balance |-> {}]
    /\ selPc = "idle"
    /\ plan = [err |-> "", q |-> Nil, fields |-> <<>>, calls |-> <<>>]
    /\ params = <<>>
    /\ stmts = <<>>
    /\ reply = [status |-> "none", ids |-> {}]
    /\ result = {}

\* the planning half of executeSelect / executeFulltextSearch: a plan that
\* threw sends nothing; otherwise this.query(sql) sends text and params
Planned(r) ==
    /\ plan' = [err |-> r.S.err, q |-> r.q, fields |-> r.fields, calls |-> r.S.calls]
    /\ params' = r.S.params
    /\ aliases' = r.S.aliases
    /\ allocated' = r.S.allocated
    /\ IF r.S.err # ""
       THEN selPc' = "threw" /\ UNCHANGED stmts
       ELSE /\ selPc' = "awaitQuery"
            /\ stmts' = Append(stmts, [text |-> Text(r.q), params |-> r.S.params])
    /\ UNCHANGED <<request, database, reply, result, txVars, srvVars, whVars, moreVars>>

\* executeSelect(entityName, args, fields$) up to its await
executeSelect ==
    /\ selPc = "start"
    /\ request.kind = "select"
    /\ Planned(select(NewBuilder, request.entity, request.args,
                                 request.fields, NoVariant))

\* executeFulltextSearch(queryName, args, $fields) up to its await
executeFulltextSearch ==
    /\ selPc = "start"
    /\ request.kind = "fts"
    /\ Planned(fulltextSearchSelect(NewBuilder, request.queryName, request.args,
                                     request.ftsFields))

\* db.query settles: the database rejects a statement it cannot parse, and
\* answers the others with the rows that pass the WHERE, cut by LIMIT/OFFSET
query_settled ==
    /\ selPc = "awaitQuery"
    /\ IF ~WellFormed(plan.q)
       THEN /\ reply' = [status |-> "error", ids |-> {}]
            /\ selPc' = "rejected"
       ELSE /\ selPc' = "resolved"
            /\ IF plan.q.e = "select" /\ Computed(plan.q)
               THEN LET m == Matched(plan.q, database)
                    IN  \E ids \in {s \in SUBSET m : Cardinality(s) = Page(plan.q, Cardinality(m))} :
                            reply' = [status |-> "rows", ids |-> ids]
               ELSE \E ids \in SUBSET {r.id : r \in database.account \cup database.historical_balance} :
                        reply' = [status |-> "rows", ids |-> ids]
    /\ UNCHANGED <<request, database, plan, params, stmts, result, aliases, allocated,
                   txVars, srvVars, whVars, moreVars>>

\* executeSelect after its await: toResult(result.rows, fields$)
executeSelect_toResult ==
    /\ selPc = "resolved"
    /\ request.kind = "select"
    /\ result' = reply.ids
    /\ selPc' = "done"
    /\ UNCHANGED <<request, database, plan, params, stmts, reply, aliases, allocated,
                   txVars, srvVars, whVars, moreVars>>

\* executeFulltextSearch after its await: toFulltextSearchResult(...)
executeFulltextSearch_toResult ==
    /\ selPc = "resolved"
    /\ request.kind = "fts"
    /\ result' = reply.ids
    /\ selPc' = "done"
    /\ UNCHANGED <<request, database, plan, params, stmts, reply, aliases, allocated,
                   txVars, srvVars, whVars, moreVars>>

\* ================================================ where-inputs on their own
WhIdle ==
    /\ whereIn = [entity |-> "none", where |-> Undefined]
    /\ wherePc = "idle"
    /\ whereOut = [has |-> "", text |-> <<>>, sql |-> <<>>]

\* hasConditions(w)
Where_hasConditions ==
    /\ wherePc = "start"
    /\ whereOut' = [whereOut EXCEPT !.has = hasConditions(whereIn.where)]
    /\ wherePc' = "checked"
    /\ UNCHANGED <<whereIn, txVars, srvVars, aliases, allocated, selVars, moreVars>>

\* generateWhere(cursor, w) with the cursor of a fresh select on the entity
Where_generateWhere ==
    /\ wherePc = "checked"
    /\ LET Aliased(al) ==
               generateWhere(al.S, NewCursor(getEntity(whereIn.entity), al.v, Nil), whereIn.where)
           Returned(g) ==
               IF Threw(g) THEN wherePc' = "threw" /\ UNCHANGED whereOut
               ELSE /\ wherePc' = "generated"
                    /\ whereOut' = [whereOut EXCEPT !.text = Text(g.v)]
       IN  Returned(Aliased(aliases_add(NewBuilder, toTable(whereIn.entity))))
    /\ UNCHANGED <<whereIn, txVars, srvVars, aliases, allocated, selVars, moreVars>>

\* select(entity, {where: w})
Where_select ==
    /\ wherePc = "generated"
    /\ LET Returned(r) ==
               IF Threw(r) THEN wherePc' = "threw" /\ UNCHANGED whereOut
               ELSE /\ wherePc' = "selected"
                    /\ whereOut' = [whereOut EXCEPT !.sql = Text(r.q)]
       IN  Returned(select(NewBuilder, whereIn.entity,
                                     WhereArgs(whereIn.where), <<>>, NoVariant))
    /\ UNCHANGED <<whereIn, txVars, srvVars, aliases, allocated, selVars, moreVars>>

\* ========================================================== relay cursors
\* src/src/relayConnection.ts.  A JavaScript string is the sequence of its
\* code points, a Buffer the sequence of its bytes, and a base64 string the
\* sequence of its symbols: 0..63 for the characters of the alphabet in
\* their order, Base64.pad for '=', Base64.junk for any other character.

\* the largest offset of a cursor put to the test
MaxOffset == 11

Ord == [lbrace |-> 123, rbrace |-> 125, lbracket |-> 91, rbracket |-> 93,
        quote |-> 34, backslash |-> 92, slash |-> 47, colon |-> 58, comma |-> 44,
        minus |-> 45, plus |-> 43, dot |-> 46, space |-> 32, zero |-> 48, nine |-> 57,
        e |-> 101, E |-> 69, replacement |-> 65533]

Base64 == [pad |-> 64, junk |-> 65]

\* the strings the model spells out; quoted is a"\ and accent is e-acute
Str == [null    |-> <<110, 117, 108, 108>>,
        true    |-> <<116, 114, 117, 101>>,
        false   |-> <<102, 97, 108, 115, 101>>,
        orderBy |-> <<111, 114, 100, 101, 114, 66, 121>>,
        offset  |-> <<111, 102, 102, 115, 101, 116>>,
        id_ASC  |-> <<105, 100, 95, 65, 83, 67>>,
        balance_DESC |-> <<98, 97, 108, 97, 110, 99, 101, 95, 68, 69, 83, 67>>,
        quoted  |-> <<97, 34, 92>>,
        accent  |-> <<233>>]

\* JSON values as JavaScript holds them
JS == [undefined |-> [j |-> "undefined"], null |-> [j |-> "null"],
       true |-> [j |-> "bool", b |-> TRUE], false |-> [j |-> "bool", b |-> FALSE]]
JStr(s)    == [j |-> "str", s |-> s]
JArr(xs)   == [j |-> "arr", items |-> xs]
\* an object: its members [k, v] in insertion order
JObj(ps)   == [j |-> "obj", pairs |-> ps]
\* a number: sign, integer part, decimal digits after the point (no
\* trailing zero), or an infinity
JNumber(neg, int, frac, inf) == [j |-> "num", neg |-> neg, int |-> int, frac |-> frac, inf |-> inf]

\* ---------------------------------------------------------- JSON.stringify
\* a string written without escaping its quotes and backslashes
JSON_quote_noescape(s) == <<Ord.quote>> \o s \o <<Ord.quote>>

\* JSON.stringify of a string
JSON_quote(s) ==
    LET RECURSIVE escape(_)
        escape(x) ==
            IF Len(x) = 0 THEN <<>>
            ELSE (IF x[1] \in {Ord.quote, Ord.backslash} THEN <<Ord.backslash, x[1]>> ELSE <<x[1]>>)
                 \o escape(Tail(x))
    IN  <<Ord.quote>> \o escape(s) \o <<Ord.quote>>

RECURSIVE JSON_stringify(_)
JSON_stringify(v) ==
    LET RECURSIVE Digits(_)
        Digits(n) == IF n < 10 THEN <<Ord.zero + n>> ELSE Digits(n \div 10) \o <<Ord.zero + (n % 10)>>
    IN  CASE v.j = "null" -> Str.null
          [] v.j = "bool" -> IF v.b THEN Str.true ELSE Str.false
          [] v.j = "num"  ->
                IF v.inf THEN Str.null
                ELSE (IF v.neg THEN <<Ord.minus>> ELSE <<>>) \o Digits(v.int)
                     \o (IF Len(v.frac) = 0 THEN <<>>
                         ELSE <<Ord.dot>> \o [i \in 1..Len(v.frac) |-> Ord.zero + v.frac[i]])
          [] v.j = "str"  -> JSON_quote(v.s)
          [] v.j = "arr"  ->
                <<Ord.lbracket>>
                \o JoinText([i \in 1..Len(v.items) |-> JSON_stringify(v.items[i])], Ord.comma)
                \o <<Ord.rbracket>>
          [] v.j = "obj"  ->
                <<Ord.lbrace>>
                \o JoinText([i \in 1..Len(v.pairs) |->
                                JSON_quote(v.pairs[i].k) \o <<Ord.colon>>
                                \o JSON_stringify(v.pairs[i].v)], Ord.comma)
                \o <<Ord.rbrace>>

\* ------------------------------------------------------------ utf-8, base64
\* Buffer.from(s, 'utf-8') for code points below 0x800: one byte below
\* 0x80, two from there on
Utf8_encode(s) ==
    LET start(i) == i + Cardinality({j \in 1..(i - 1) : s[j] >= 128})
        byte(k, i) ==
            IF s[i] < 128 THEN s[i]
            ELSE IF k = start(i) THEN 192 + (s[i] \div 64)
            ELSE 128 + (s[i] % 64)
        at(k) == CHOOSE i \in 1..Len(s) : start(i) <= k /\ k < start(i + 1)
    IN  [k \in 1..(start(Len(s) + 1) - 1) |-> byte(k, at(k))]

\* buf.toString('utf-8'): a byte below 0x80 is a character, a lead byte
\* 0xC2..0xDF with a continuation byte 0x80..0xBF after it is one, and any
\* other byte becomes U+FFFD
Utf8_decode(b) ==
    LET lead(k) == k >= 1 /\ k <= Len(b) /\ b[k] >= 194 /\ b[k] < 224
        cont(k) == k >= 1 /\ k <= Len(b) /\ b[k] >= 128 /\ b[k] < 192
        first(k) == ~(cont(k) /\ lead(k - 1))
        char(k) ==
            IF b[k] < 128 THEN b[k]
            ELSE IF lead(k) /\ cont(k + 1) THEN (b[k] - 192) * 64 + (b[k + 1] - 128)
            ELSE Ord.replacement
        firsts == SelectSeq([k \in 1..Len(b) |-> k], first)
    IN  [n \in 1..Len(firsts) |-> char(firsts[n])]

\* buf.toString('base64'): six bits a symbol, '=' up to a multiple of four
Base64_encode(b) ==
    LET byte(i) == IF i <= Len(b) THEN b[i] ELSE 0
        symbol(k) ==
            LET i == (6 * (k - 1)) \div 8 + 1
            IN  IF i > Len(b) THEN Base64.pad
                ELSE CASE (6 * (k - 1)) % 8 = 0 -> b[i] \div 4
                       [] (6 * (k - 1)) % 8 = 6 -> (b[i] % 4) * 16 + byte(i + 1) \div 16
                       [] (6 * (k - 1)) % 8 = 4 -> (b[i] % 16) * 4 + byte(i + 1) \div 64
                       [] (6 * (k - 1)) % 8 = 2 -> b[i] % 64
    IN  [k \in 1..(4 * ((Len(b) + 2) \div 3)) |-> symbol(k)]

\* Buffer.from(value, 'base64'): the decoder passes over characters outside
\* the alphabet, stops at '=', and writes a byte as soon as it has its bits
Base64_decode(syms) ==
    LET pads == {i \in 1..Len(syms) : syms[i] = Base64.pad}
        stop == IF pads = {} THEN Len(syms)
                ELSE (CHOOSE i \in pads : \A j \in pads : i <= j) - 1
        keep(x) == x # Base64.junk
        bytes(x) ==
            [k \in 1..((6 * Len(x)) \div 8) |->
                LET s == (8 * (k - 1)) \div 6 + 1
                IN  CASE (8 * (k - 1)) % 6 = 0 -> x[s] * 4 + x[s + 1] \div 16
                      [] (8 * (k - 1)) % 6 = 2 -> (x[s] % 16) * 16 + x[s + 1] \div 4
                      [] (8 * (k - 1)) % 6 = 4 -> (x[s] % 4) * 64 + x[s + 1]]
    IN  bytes(SelectSeq(SubSeq(syms, 1, stop), keep))

\* --------------------------------------------------------------- JSON.parse
\* JSON.parse(t): [ok, v], ok being FALSE for a SyntaxError.  Every parsing
\* operator returns [ok, v, i]: whether the text from its position on starts
\* with what it parses, the value, and the position after it.  Of the string
\* escapes it knows \" \\ and \/.
JSON_parse(t) ==
    LET Parsed(v, i) == [ok |-> TRUE, v |-> v, i |-> i]
        SyntaxError  == [ok |-> FALSE, v |-> JS.undefined, i |-> 0]
        MaxExponent  == 308
        IsDigit(c)   == c >= Ord.zero /\ c <= Ord.nine
        At(i, c)     == i <= Len(t) /\ t[i] = c
        StartsWith(i, word) == i + Len(word) - 1 <= Len(t) /\ SubSeq(t, i, i + Len(word) - 1) = word
        RECURSIVE SkipWs(_)
        SkipWs(i) == IF At(i, Ord.space) THEN SkipWs(i + 1) ELSE i
        RECURSIVE DigitsEnd(_)
        DigitsEnd(i) == IF i <= Len(t) /\ IsDigit(t[i]) THEN DigitsEnd(i + 1) ELSE i
        RECURSIVE IntOf(_, _)
        IntOf(a, b) == IF a >= b THEN 0 ELSE IntOf(a, b - 1) * 10 + (t[b - 1] - Ord.zero)
        RECURSIVE StripZeros(_)
        StripZeros(d) == IF Len(d) > 0 /\ d[Len(d)] = 0 THEN StripZeros(SubSeq(d, 1, Len(d) - 1)) ELSE d
        RECURSIVE Scale(_, _, _, _)
        \* int.frac times ten to the power e
        Scale(neg, int, frac, e) ==
            CASE e = 0 -> JNumber(neg, int, StripZeros(frac), FALSE)
              [] e > 0 -> Scale(neg, int * 10 + (IF Len(frac) = 0 THEN 0 ELSE frac[1]),
                                IF Len(frac) = 0 THEN <<>> ELSE Tail(frac), e - 1)
              [] e < 0 -> Scale(neg, int \div 10, <<int % 10>> \o frac, e + 1)
        NumberValue(neg, int, frac, exp, down) ==
            IF int = 0 /\ StripZeros(frac) = <<>> THEN JNumber(neg, 0, <<>>, FALSE)
            ELSE IF exp > MaxExponent THEN JNumber(neg, 0, <<>>, ~down)
            ELSE Scale(neg, int, frac, IF down THEN 0 - exp ELSE exp)
        \* c: where an exponent may start, d: its first digit (or c), z: its end
        Exponent(neg, int, frac, c, d, z) ==
            IF c = d THEN Parsed(NumberValue(neg, int, frac, 0, FALSE), c)
            ELSE IF z = d THEN SyntaxError
            ELSE Parsed(NumberValue(neg, int, frac, IntOf(d, z), t[d - 1] = Ord.minus), z)
        ExponentStart(c) ==
            IF c <= Len(t) /\ t[c] \in {Ord.e, Ord.E}
            THEN IF c + 1 <= Len(t) /\ t[c + 1] \in {Ord.plus, Ord.minus} THEN c + 2 ELSE c + 1
            ELSE c
        ExponentAt(neg, int, frac, c, d) ==
            Exponent(neg, int, frac, c, d, IF d = c THEN c ELSE DigitsEnd(d))
        Fraction(neg, int, b, c) ==
            IF c = b + 1 THEN SyntaxError
            ELSE ExponentAt(neg, int, [k \in 1..(c - b - 1) |-> t[b + k] - Ord.zero], c, ExponentStart(c))
        \* the digits t[a..b-1], and what follows them
        Integer(neg, a, b) ==
            IF b = a \/ (b > a + 1 /\ t[a] = Ord.zero) THEN SyntaxError
            ELSE IF At(b, Ord.dot) THEN Fraction(neg, IntOf(a, b), b, DigitsEnd(b + 1))
            ELSE ExponentAt(neg, IntOf(a, b), <<>>, b, ExponentStart(b))
        \* -? digits (. digits)? ([eE] [+-]? digits)?
        Number(i) ==
            IF t[i] = Ord.minus THEN Integer(TRUE, i + 1, DigitsEnd(i + 1))
            ELSE Integer(FALSE, i, DigitsEnd(i))
        RECURSIVE String(_, _)
        \* the characters after an opening quote
        String(i, acc) ==
            IF i > Len(t) \/ t[i] < Ord.space THEN SyntaxError
            ELSE IF t[i] = Ord.quote THEN Parsed(JStr(acc), i + 1)
            ELSE IF t[i] = Ord.backslash
                 THEN IF i + 1 <= Len(t) /\ t[i + 1] \in {Ord.quote, Ord.backslash, Ord.slash}
                      THEN String(i + 2, Append(acc, t[i + 1]))
                      ELSE SyntaxError
            ELSE String(i + 1, Append(acc, t[i]))
        RECURSIVE Value(_)
        RECURSIVE Elements(_, _)
        RECURSIVE Members(_, _)
        ValueAt(i) ==
            IF i > Len(t) THEN SyntaxError
            ELSE CASE t[i] = Ord.quote -> String(i + 1, <<>>)
                   [] t[i] = Ord.lbracket -> Elements(SkipWs(i + 1), <<>>)
                   [] t[i] = Ord.lbrace -> Members(SkipWs(i + 1), <<>>)
                   [] t[i] = Ord.minus \/ IsDigit(t[i]) -> Number(i)
                   [] StartsWith(i, Str.null)  -> Parsed(JS.null, i + Len(Str.null))
                   [] StartsWith(i, Str.true)  -> Parsed(JS.true, i + Len(Str.true))
                   [] StartsWith(i, Str.false) -> Parsed(JS.false, i + Len(Str.false))
                   [] OTHER -> SyntaxError
        Value(i) == ValueAt(SkipWs(i))
        \* an element has been read; k is the position of what follows it
        ElementsNext(acc, v, k) ==
            IF k > Len(t) THEN SyntaxError
            ELSE IF t[k] = Ord.rbracket THEN Parsed(JArr(Append(acc, v)), k + 1)
            ELSE IF t[k] = Ord.comma THEN Elements(SkipWs(k + 1), Append(acc, v))
            ELSE SyntaxError
        ElementsRead(acc, r) == IF ~r.ok THEN SyntaxError ELSE ElementsNext(acc, r.v, SkipWs(r.i))
        \* after '[' or ',' and white space: ] when nothing was read, or value (, value)* ]
        Elements(i, acc) ==
            IF Len(acc) = 0 /\ At(i, Ord.rbracket) THEN Parsed(JArr(<<>>), i + 1)
            ELSE ElementsRead(acc, Value(i))
        \* a member has been read; k is the position of what follows it
        MembersNext(acc, key, v, k) ==
            IF k > Len(t) THEN SyntaxError
            ELSE IF t[k] = Ord.rbrace THEN Parsed(JObj(Append(acc, [k |-> key, v |-> v])), k + 1)
            ELSE IF t[k] = Ord.comma THEN Members(SkipWs(k + 1), Append(acc, [k |-> key, v |-> v]))
            ELSE SyntaxError
        MembersRead(acc, key, r) == IF ~r.ok THEN SyntaxError ELSE MembersNext(acc, key, r.v, SkipWs(r.i))
        MembersColon(acc, key, c) ==
            IF At(c, Ord.colon) THEN MembersRead(acc, key, Value(c + 1)) ELSE SyntaxError
        MembersKey(acc, key) == IF ~key.ok THEN SyntaxError ELSE MembersColon(acc, key.v.s, SkipWs(key.i))
        \* after '{' or ',' and white space: } when nothing was read, or
        \* string : value (, string : value)* }
        Members(i, acc) ==
            IF Len(acc) = 0 /\ At(i, Ord.rbrace) THEN Parsed(JObj(<<>>), i + 1)
            ELSE IF At(i, Ord.quote) THEN MembersKey(acc, String(i + 1, <<>>))
            ELSE SyntaxError
        End(r) ==
            IF r.ok /\ SkipWs(r.i) > Len(t) THEN [ok |-> TRUE, v |-> r.v]
            ELSE [ok |-> FALSE, v |-> JS.undefined]
    IN  End(Value(1))

\* value[key] of a parsed value: the last member called key, undefined when
\* there is none or the value is not an object
Property(v, key) ==
    LET RECURSIVE Lookup(_)
        Lookup(n) ==
            IF n = 0 THEN JS.undefined
            ELSE IF v.pairs[n].k = key THEN v.pairs[n].v
            ELSE Lookup(n - 1)
    IN  IF v.j = "obj" THEN Lookup(Len(v.pairs)) ELSE JS.undefined

\* ------------------------------------------------------------ the cursor
\* the object {orderBy, offset}: orderBy a sequence of strings, offset a number
Cursor(orderBy, offset) ==
    JObj(<<[k |-> Str.orderBy, v |-> JArr([i \in 1..Len(orderBy) |-> JStr(orderBy[i])])],
           [k |-> Str.offset, v |-> offset]>>)

\* encodeCursor(cursor), for whatever value it is called with
encodeCursor(cursor) == Base64_encode(Utf8_encode(JSON_stringify(cursor)))

\* decodeCursor: [ok, error, cursor]; whatever the try block throws becomes
\* InvalidCursorValue in the catch
decodeCursor(value) ==
    LET Thrown(e) == [ok |-> FALSE, error |-> e, cursor |-> JS.undefined]
        asserts(orderBy, offset) ==
            CASE orderBy.j # "arr" -> Thrown("AssertionError")
              [] ~(Len(orderBy.items) > 0) -> Thrown("AssertionError")
              [] ~(\A i \in 1..Len(orderBy.items) : orderBy.items[i].j = "str") -> Thrown("AssertionError")
              [] offset.j # "num" -> Thrown("AssertionError")
              [] ~(~offset.neg /\ (offset.inf \/ offset.int > 0 \/ Len(offset.frac) > 0)) -> Thrown("AssertionError")
              [] offset.inf -> Thrown("AssertionError")
              [] OTHER -> [ok |-> TRUE, error |-> "",
                           cursor |-> Cursor([i \in 1..Len(orderBy.items) |-> orderBy.items[i].s], offset)]
        try(parsed) ==
            CASE ~parsed.ok -> Thrown("SyntaxError")
              [] parsed.v.j \notin {"obj", "arr", "null"} -> Thrown("AssertionError")
              [] parsed.v.j = "null" -> Thrown("TypeError")
              [] OTHER -> asserts(Property(parsed.v, Str.orderBy), Property(parsed.v, Str.offset))
        catch(r) == IF r.ok THEN r ELSE [r EXCEPT !.error = "InvalidCursorValue"]
    IN  catch(try(JSON_parse(Utf8_decode(Base64_decode(value)))))

\* ------------------------------------------------- cursors put to the test
\* cursors of one and two orderBy values: two of the schema's, one with a
\* quote and a backslash, one that utf-8 writes in two bytes
Cursors ==
    LET OrderByValues == {Str.id_ASC, Str.balance_DESC, Str.quoted, Str.accent}
    IN  {Cursor(ob, JNumber(FALSE, n, <<>>, FALSE)) :
            ob \in {<<a>> : a \in OrderByValues} \cup {<<a, b>> : a, b \in OrderByValues},
            n \in 1..MaxOffset}

\* is v what a cursor is made from: an object whose orderBy is a non-empty
\* array of strings and whose offset is a positive finite integer
IsCursorJson(v) ==
    /\ v.j = "obj"
    /\ \E p \in 1..Len(v.pairs) :
          /\ v.pairs[p].k = Str.orderBy
          /\ \A q \in (p + 1)..Len(v.pairs) : v.pairs[q].k # Str.orderBy
          /\ v.pairs[p].v.j = "arr"
          /\ Len(v.pairs[p].v.items) > 0
          /\ \A i \in 1..Len(v.pairs[p].v.items) : v.pairs[p].v.items[i].j = "str"
    /\ \E p \in 1..Len(v.pairs) :
          /\ v.pairs[p].k = Str.offset
          /\ \A q \in (p + 1)..Len(v.pairs) : v.pairs[q].k # Str.offset
          /\ v.pairs[p].v.j = "num"
          /\ ~v.pairs[p].v.neg /\ ~v.pairs[p].v.inf
          /\ v.pairs[p].v.int > 0 /\ Len(v.pairs[p].v.frac) = 0

\* what a client can send as `after`, each value with whether it is the
\* encoding of a cursor: the base64 of JSON values, of texts written by hand,
\* and one valid cursor with a line break in front
CursorValues ==
    LET Received(value, genuine) ==
            [kind |-> "value", cursor |-> JS.undefined, value |-> value, genuine |-> genuine]
        Pair(k, v) == [k |-> k, v |-> v]
        JInt(n) == JNumber(FALSE, n, <<>>, FALSE)
        CursorLike(orderBy, offset) == JObj(<<Pair(Str.orderBy, orderBy), Pair(Str.offset, offset)>>)
        GoodOrderBy == JArr(<<JStr(Str.id_ASC)>>)
        ForeignJson ==
            { JS.null, JInt(3), JS.true, JStr(Str.id_ASC), JArr(<<>>), JArr(<<JStr(Str.id_ASC)>>), JObj(<<>>),
              JObj(<<Pair(Str.offset, JInt(1))>>),
              JObj(<<Pair(Str.orderBy, GoodOrderBy)>>),
              JObj(<<Pair(Str.offset, JInt(2)), Pair(Str.orderBy, GoodOrderBy)>>),
              JObj(<<Pair(Str.orderBy, GoodOrderBy), Pair(Str.offset, JInt(2)), Pair(Str.id_ASC, JS.null)>>),
              JObj(<<Pair(Str.orderBy, JArr(<<>>)), Pair(Str.orderBy, GoodOrderBy), Pair(Str.offset, JInt(1))>>),
              CursorLike(JArr(<<>>), JInt(1)),
              CursorLike(JStr(Str.id_ASC), JInt(1)),
              CursorLike(JS.null, JInt(1)),
              CursorLike(JArr(<<JStr(Str.id_ASC), JInt(5)>>), JInt(1)),
              CursorLike(JArr(<<JS.null>>), JInt(1)),
              CursorLike(GoodOrderBy, JS.null),
              CursorLike(GoodOrderBy, JStr(<<49>>)),
              CursorLike(GoodOrderBy, JS.true),
              CursorLike(GoodOrderBy, JInt(0)),
              CursorLike(GoodOrderBy, JInt(1)),
              CursorLike(GoodOrderBy, JInt(10)),
              CursorLike(GoodOrderBy, JNumber(TRUE, 1, <<>>, FALSE)),
              CursorLike(GoodOrderBy, JNumber(FALSE, 1, <<5>>, FALSE)),
              CursorLike(GoodOrderBy, JNumber(FALSE, 0, <<2, 5>>, FALSE)),
              CursorLike(GoodOrderBy, JNumber(TRUE, 2, <<5>>, FALSE)) }
        GoodText == JSON_stringify(CursorLike(GoodOrderBy, JInt(1)))
        \* GoodText with other characters in place of its last n
        Respelt(n, tail) == SubSeq(GoodText, 1, Len(GoodText) - n) \o tail
        ForeignTexts ==
            { [text |-> <<>>, genuine |-> FALSE],
              [text |-> Respelt(1, <<>>), genuine |-> FALSE],
              [text |-> Respelt(0, <<Ord.rbrace>>), genuine |-> FALSE],
              [text |-> Respelt(1, <<Ord.comma, Ord.rbrace>>), genuine |-> FALSE],
              [text |-> <<Ord.space>> \o GoodText \o <<Ord.space>>, genuine |-> TRUE],
              [text |-> Respelt(1, <<Ord.e, 50, Ord.rbrace>>), genuine |-> TRUE],
              [text |-> Respelt(1, <<Ord.dot, Ord.zero, Ord.rbrace>>), genuine |-> TRUE],
              [text |-> Respelt(1, <<Ord.e, Ord.nine, Ord.nine, Ord.nine, Ord.rbrace>>), genuine |-> FALSE],
              [text |-> Respelt(1, <<Ord.e, Ord.minus, 49, Ord.rbrace>>), genuine |-> FALSE],
              [text |-> Respelt(2, <<Ord.minus, Ord.zero, Ord.rbrace>>), genuine |-> FALSE],
              [text |-> Respelt(2, <<Ord.zero, 49, Ord.rbrace>>), genuine |-> FALSE],
              [text |-> Respelt(2, <<Ord.plus, 49, Ord.rbrace>>), genuine |-> FALSE],
              [text |-> Respelt(1, <<Ord.dot, Ord.rbrace>>), genuine |-> FALSE] }
    IN  {Received(Base64_encode(Utf8_encode(JSON_stringify(v))), IsCursorJson(v)) : v \in ForeignJson}
        \cup {Received(Base64_encode(Utf8_encode(x.text)), x.genuine) : x \in ForeignTexts}
        \cup {Received(<<Base64.junk>> \o Base64_encode(Utf8_encode(GoodText)), FALSE)}

CursorInputs ==
    {[kind |-> "cursor", cursor |-> c, value |-> <<>>, genuine |-> TRUE] : c \in Cursors}
    \cup CursorValues

CurIdle ==
    /\ cursorIn = [kind |-> "value", cursor |-> JS.undefined, value |-> <<>>, genuine |-> FALSE]
    /\ cursorPc = "idle"
    /\ cursorOut = [value |-> <<>>, decoded |-> [ok |-> FALSE, error |-> "", cursor |-> JS.undefined]]

\* the server hands out encodeCursor(c)
encodeCursor_call ==
    /\ cursorPc = "start"
    /\ cursorIn.kind = "cursor"
    /\ cursorOut' = [cursorOut EXCEPT !.value = encodeCursor(cursorIn.cursor)]
    /\ cursorPc' = "encoded"
    /\ UNCHANGED <<cursorIn, txVars, srvVars, aliases, allocated, selVars, whVars, connVars, rfVars, rowVars, keyVars>>

\* a client sends a value of its own as `after`
decodeCursor_argument ==
    /\ cursorPc = "start"
    /\ cursorIn.kind = "value"
    /\ cursorOut' = [cursorOut EXCEPT !.value = cursorIn.value]
    /\ cursorPc' = "encoded"
    /\ UNCHANGED <<cursorIn, txVars, srvVars, aliases, allocated, selVars, whVars, connVars, rfVars, rowVars, keyVars>>

\* decodeCursor(value)
decodeCursor_call ==
    /\ cursorPc = "encoded"
    /\ cursorOut' = [cursorOut EXCEPT !.decoded = decodeCursor(cursorOut.value)]
    /\ cursorPc' = "decoded"
    /\ UNCHANGED <<cursorIn, txVars, srvVars, aliases, allocated, selVars, whVars, connVars, rfVars, rowVars, keyVars>>

\* ============================================================= connections
\* resolveEntityConnection.  The rows themselves are left out of the
\* response: an edge is [node: whether it carries the row, cursor].

MaxFirst == 2   \* the largest page size `first`
MaxAfter == 3   \* the largest offset of a cursor sent as `after`

ConnIdle ==
    /\ connArgs = [entity |-> "none"]
    /\ connPc = "idle"
    /\ connLocal = [calls |-> <<>>, offset |-> 0, limit |-> 0, listLength |-> 0]
    /\ response = [error |-> "", edges |-> [set |-> FALSE, items |-> <<>>],
                   pageInfo |-> [set |-> FALSE], totalCount |-> [set |-> FALSE, n |-> 0]]

\* the OpenCrud spelling of the orderBy items used on connections
OrderByValue(item) ==
    CASE item = OrderItem(<<"balance">>, "DESC") -> Str.balance_DESC
      [] item = OrderItem(<<"id">>, "ASC") -> Str.id_ASC

\* decodeConnectionArgs(args): [err, offset, limit].  limit is first; offset
\* is 0 without `after`, else the offset of the decoded cursor, whose orderBy
\* must be the orderBy of the arguments
decodeConnectionArgs(args) ==
    LET texts == [i \in 1..Len(args.orderBy.items) |-> JStr(OrderByValue(args.orderBy.items[i]))]
        decoded(d) ==
            IF ~d.ok THEN [err |-> d.error, offset |-> 0, limit |-> 0]
            ELSE IF Property(d.cursor, Str.orderBy) # JArr(texts)
                 THEN [err |-> "UserInputError", offset |-> 0, limit |-> 0]
            ELSE [err |-> "", offset |-> Property(d.cursor, Str.offset).int, limit |-> args.first]
    IN  IF ~args.after.set THEN [err |-> "", offset |-> 0, limit |-> args.first]
        ELSE decoded(decodeCursor(args.after.value))

\* the list statement with limit in place of limit + 1
listSelect_exact(args, offset, limit, fields) ==
    select(NewBuilder, args.entity, ListArgs(args.where, args.orderBy, Lit(limit), Lit(offset)),
           fields, NoVariant)

\* this.select(entityName, listArgs, fields) of a fresh QueryBuilder, with
\* listArgs = {where: args.where, orderBy, offset, limit: limit + 1}
listSelect(args, offset, limit, fields) ==
    select(NewBuilder, args.entity, ListArgs(args.where, args.orderBy, Lit(limit + 1), Lit(offset)),
           fields, NoVariant)

\* this.select(entityName, {where}) of executeSelectCount
countSelect(args) == select(NewBuilder, args.entity, WhereArgs(args.where), <<>>, NoVariant)

\* the fields requested under edges.node
NodeFields(args) == <<Leaf(args.entity, "balance")>>

\* the arguments checked in the other order: the cursor first, orderBy after
connectionArgs_decodeFirst(args) ==
    LET checked(d) ==
            IF d.err # "" THEN [err |-> d.err, calls |-> <<"decodeConnectionArgs">>, offset |-> 0, limit |-> 0]
            ELSE IF ~(Truthy(args.orderBy) /\ Len(ensureArray(args.orderBy)) > 0)
                 THEN [err |-> "UserInputError", calls |-> <<"decodeConnectionArgs">>, offset |-> 0, limit |-> 0]
            ELSE [err |-> "", calls |-> <<"decodeConnectionArgs">>, offset |-> d.offset, limit |-> d.limit]
    IN  checked(decodeConnectionArgs([args EXCEPT !.orderBy = IF Truthy(@) THEN @ ELSE Arr(<<>>)]))

\* the head of resolveEntityConnection: orderBy is required, then
\* decodeConnectionArgs(args); [err, calls, offset, limit], calls being the
\* functions called on the way
connectionArgs(args) ==
    LET decoded(d) == [err |-> d.err, calls |-> <<"decodeConnectionArgs">>,
                       offset |-> d.offset, limit |-> d.limit]
    IN  IF ~(Truthy(args.orderBy) /\ Len(ensureArray(args.orderBy)) > 0)
        THEN [err |-> "UserInputError", calls |-> <<>>, offset |-> 0, limit |-> 0]
        ELSE decoded(decodeConnectionArgs(args))

\* totalCount set whatever the length of the list
totalCount_always(offset, limit, listLength, current) == [set |-> TRUE, n |-> offset + listLength]

\* if (listLength > 0 && listLength <= limit) response.totalCount = offset + listLength
totalCount(offset, limit, listLength, current) ==
    IF listLength > 0 /\ listLength <= limit THEN [set |-> TRUE, n |-> offset + listLength] ELSE current

\* pageInfo(listLength)
pageInfo(offset, limit, listLength) ==
    [set |-> TRUE,
     hasNextPage |-> listLength > limit,
     hasPreviousPage |-> listLength > 0 /\ offset > 0,
     startCursor |-> IF listLength > 0 THEN encodeCursor(JNumber(FALSE, offset + 1, <<>>, FALSE)) ELSE <<>>,
     endCursor |-> IF listLength > 0
                   THEN encodeCursor(JNumber(FALSE, offset + (IF limit < listLength THEN limit ELSE listLength),
                                             <<>>, FALSE))
                   ELSE <<>>]

\* the edges of a page: Math.min(limit, listLength) of them
Edges(offset, limit, listLength, node) ==
    [i \in 1..(IF limit < listLength THEN limit ELSE listLength) |->
        [node |-> node, cursor |-> encodeCursor(JNumber(FALSE, offset + (i - 1) + 1, <<>>, FALSE))]]

\* resolveEntityConnection up to its first await: the orderBy check,
\* decodeConnectionArgs, and the statement of the branch the fields select
resolveEntityConnection ==
    /\ connPc = "start"
    /\ LET fields == connArgs.fields
           Sent(name, head, r, tail) ==
               IF Threw(r)
               THEN /\ connPc' = "threw"
                    /\ response' = [response EXCEPT !.error = r.S.err]
                    /\ UNCHANGED stmts
               ELSE /\ connPc' = name
                    /\ stmts' = Append(stmts, [text |-> head \o Text(r.q) \o tail, params |-> r.S.params])
                    /\ UNCHANGED response
           Checked(d) ==
               /\ connLocal' = [calls |-> d.calls, offset |-> d.offset, limit |-> d.limit, listLength |-> 0]
               /\ CASE d.err # "" ->
                          /\ connPc' = "threw"
                          /\ response' = [response EXCEPT !.error = d.err]
                          /\ UNCHANGED stmts
                    [] d.err = "" /\ fields.node ->
                          Sent("awaitSelect", <<>>,
                               listSelect(connArgs, d.offset, d.limit, NodeFields(connArgs)), <<>>)
                    [] d.err = "" /\ ~fields.node /\ (fields.cursor \/ fields.pageInfo) ->
                          Sent("awaitListCount", <<Sql("SELECT count(*) FROM (SELECT true")>>,
                               listSelect(connArgs, d.offset, d.limit, <<>>),
                               <<Sql(") AS"), Ident("list")>>)
                    [] OTHER -> connPc' = "listed" /\ UNCHANGED <<stmts, response>>
       IN  Checked(connectionArgs(connArgs))
    /\ UNCHANGED <<connArgs, request, database, selPc, plan, params, reply, result,
                   aliases, allocated, txVars, srvVars, whVars, curVars, rfVars, rowVars, keyVars>>

\* the list statement (executeSelect) or its count (executeListCount) is
\* answered, and the resolver fills in edges, pageInfo and, when the page is
\* not empty and not overfull, totalCount
resolveEntityConnection_listed ==
    /\ connPc \in {"awaitSelect", "awaitListCount"}
    /\ LET offset == connLocal.offset
           limit  == connLocal.limit
           Filled(listLength) ==
               /\ connLocal' = [connLocal EXCEPT !.listLength = listLength]
               /\ response' =
                     [response EXCEPT
                        !.edges = IF connPc = "awaitSelect" \/ connArgs.fields.cursor
                                  THEN [set |-> TRUE,
                                        items |-> Edges(offset, limit, listLength, connPc = "awaitSelect")]
                                  ELSE @,
                        !.pageInfo = pageInfo(offset, limit, listLength),
                        !.totalCount = totalCount(offset, limit, listLength, @)]
           Answered(q) == Filled(Page(q, Cardinality(Matched(q, database))))
       IN  Answered(listSelect(connArgs, offset, limit, <<>>).q)
    /\ connPc' = "listed"
    /\ UNCHANGED <<connArgs, selVars, aliases, allocated, txVars, srvVars, whVars, curVars, rfVars, rowVars, keyVars>>

\* if (fields.totalCount && response.totalCount == null): executeSelectCount
resolveEntityConnection_totalCount ==
    /\ connPc = "listed"
    /\ IF connArgs.fields.totalCount /\ ~response.totalCount.set
       THEN /\ connPc' = "awaitCount"
            /\ stmts' = Append(stmts, [text |-> <<Sql("SELECT count(*)")>> \o Text(countSelect(connArgs).q),
                                       params |-> countSelect(connArgs).S.params])
       ELSE /\ connPc' = "done"
            /\ UNCHANGED stmts
    /\ UNCHANGED <<connArgs, connLocal, response, request, database, selPc, plan, params, reply, result,
                   aliases, allocated, txVars, srvVars, whVars, curVars, rfVars, rowVars, keyVars>>

\* the count taken over the whole table, the where left out
resolveEntityConnection_counted_unfiltered ==
    /\ connPc = "awaitCount"
    /\ response' = [response EXCEPT
                      !.totalCount = [set |-> TRUE,
                                      n |-> Cardinality(Matched(countSelect([connArgs EXCEPT !.where = Undefined]).q,
                                                                database))]]
    /\ connPc' = "done"
    /\ UNCHANGED <<connArgs, connLocal, selVars, aliases, allocated, txVars, srvVars, whVars,
                   curVars, rfVars, rowVars, keyVars>>

\* the count is answered: response.totalCount = toInt(result.rows[0][0])
resolveEntityConnection_counted ==
    /\ connPc = "awaitCount"
    /\ response' = [response EXCEPT
                      !.totalCount = [set |-> TRUE,
                                      n |-> Cardinality(Matched(countSelect(connArgs).q, database))]]
    /\ connPc' = "done"
    /\ UNCHANGED <<connArgs, connLocal, selVars, aliases, allocated, txVars, srvVars, whVars,
                   curVars, rfVars, rowVars, keyVars>>

\* the connection fields put to the test, on HistoricalBalance
ConnectionRequests ==
    LET orderBys == {Undefined, Arr(<<>>), Arr(<<OrderItem(<<"balance">>, "DESC")>>),
                     Arr(<<OrderItem(<<"id">>, "ASC"), OrderItem(<<"balance">>, "DESC")>>)}
        texts(ob) == IF Truthy(ob) THEN [i \in 1..Len(ob.items) |-> OrderByValue(ob.items[i])] ELSE <<>>
        \* no cursor; a cursor of this ordering; one of another ordering; and
        \* the cursor the resolver hands out for offset 1
        afters(ob) ==
            {[set |-> FALSE, value |-> <<>>]}
            \cup {[set |-> TRUE, value |-> encodeCursor(Cursor(texts(ob), JNumber(FALSE, n, <<>>, FALSE)))] :
                    n \in 1..MaxAfter}
            \cup {[set |-> TRUE, value |-> encodeCursor(Cursor(<<Str.quoted>>, JNumber(FALSE, 1, <<>>, FALSE)))],
                   [set |-> TRUE, value |-> encodeCursor(JNumber(FALSE, 1, <<>>, FALSE))]}
        fieldSets ==
            {[node |-> n, cursor |-> c, pageInfo |-> p, totalCount |-> t] :
                n, c, p, t \in BOOLEAN}
    IN  UNION {{[entity |-> "HistoricalBalance", where |-> w, orderBy |-> ob, first |-> f,
                 after |-> a, fields |-> fs] :
                    w \in {Undefined, Where(<<Cond("balance", "gt", Lit(50))>>)},
                    f \in 0..MaxFirst, a \in afters(ob), fs \in fieldSets} : ob \in orderBys}

\* ------------------------------------------------------------ requested fields
\* src/src/requestedFields.ts: the selection set of a query, as
\* graphql-parse-resolve-info presents it, becomes the RequestedFields tree.
\* A RequestedFields object is the sequence of its entries [name, propType,
\* requests] in the order of their creation.

MaxSelected == 3

\* a model with a property of every kind; `constructor` is a name that
\* PROP_NAME_REGEX admits and that every JavaScript object inherits
RequestedModel == [
    Account |-> [kind |-> "entity", properties |-> [
        id          |-> [kind |-> "scalar", name |-> "ID"],
        status      |-> [kind |-> "enum", name |-> "Status"],
        extra       |-> [kind |-> "object", name |-> "Extra"],
        owner       |-> [kind |-> "fk", foreignEntity |-> "Account"],
        history     |-> [kind |-> "list-relation", entity |-> "HistoricalBalance", field |-> "account"],
        payload     |-> [kind |-> "union", name |-> "Payload"],
        constructor |-> [kind |-> "fk", foreignEntity |-> "Account"]]],
    HistoricalBalance |-> [kind |-> "entity", properties |-> [
        id          |-> [kind |-> "scalar", name |-> "ID"],
        account     |-> [kind |-> "fk", foreignEntity |-> "Account"]]],
    Extra |-> [kind |-> "object", properties |-> [
        memo        |-> [kind |-> "scalar", name |-> "String"],
        account     |-> [kind |-> "fk", foreignEntity |-> "Account"]]],
    Transfer |-> [kind |-> "object", properties |-> [
        memo        |-> [kind |-> "scalar", name |-> "String"],
        amount      |-> [kind |-> "scalar", name |-> "BigInt"],
        account     |-> [kind |-> "fk", foreignEntity |-> "Account"]]],
    Payload |-> [kind |-> "union", variants |-> <<"Extra", "Transfer">>]]

\* the keys a fresh object {} answers with an inherited, non-null value
ObjectPrototype == {"constructor", "toString", "valueOf", "hasOwnProperty"}

\* a ResolveTree: the field selected, the key of the output, its arguments
\* and its own selection set for every type it applies to
ResolveTree(alias, name, args, fieldsByTypeName) ==
    [alias |-> alias, name |-> name, args |-> args, fieldsByTypeName |-> fieldsByTypeName]

\* simplifyResolveTree(schema, tree, typeName).fields, in the order of the keys
simplifyResolveTree(tree, typeName) ==
    IF typeName \in DOMAIN tree.fieldsByTypeName THEN tree.fieldsByTypeName[typeName] ELSE <<>>

FieldRequest(alias, children, args, ifType) ==
    [alias |-> alias, children |-> children, args |-> args, ifType |-> ifType, index |-> 0]

\* the position of key `name` among the own keys of `fields`, 0 when it has none
OwnKey(fields, name) ==
    LET at == {i \in 1..Len(fields) : fields[i].name = name}
    IN IF at = {} THEN 0 ELSE CHOOSE i \in at : TRUE

\* requested[name] = field
Assign(fields, name, field) ==
    IF OwnKey(fields, name) = 0
    THEN Append(fields, field)
    ELSE [fields EXCEPT ![OwnKey(fields, name)] = field]

\* addRequest(requested, name, propType, req); r: [err, fields]. requested[name]
\* of an inherited key is not null and has no `requests`: the push throws
addRequest(r, name, propType, req) ==
    CASE r.err # "" -> r
      [] OwnKey(r.fields, name) > 0 ->
            [r EXCEPT !.fields[OwnKey(r.fields, name)].requests = Append(@, req)]
      [] name \in ObjectPrototype -> [r EXCEPT !.err = "TypeError"]
      [] OTHER -> [r EXCEPT !.fields = Append(@, [name |-> name, propType |-> propType, requests |-> <<req>>])]

\* mergeUnionRequests(union); union: the sequence of [name, fields], one
\* entry for every variant
mergeUnionRequests(union) ==
    LET RECURSIVE requests(_, _, _, _, _)
        requests(r, name, field, reqs, i) ==
            IF i > Len(reqs) THEN r
            ELSE requests(addRequest(r, field.name, field.propType, [reqs[i] EXCEPT !.ifType = name]),
                          name, field, reqs, i + 1)
        key(r, name, field) ==
            IF field.propType.kind \in {"scalar", "enum"}
            THEN [r EXCEPT !.fields = Assign(@, field.name, field)]
            ELSE requests(r, name, field, field.requests, 1)
        RECURSIVE keys(_, _, _, _)
        keys(r, name, fields, i) ==
            CASE r.err # "" -> r
              [] i > Len(fields) -> r
              [] OTHER -> keys(key(r, name, fields[i]), name, fields, i + 1)
        RECURSIVE variants(_, _)
        variants(r, i) ==
            CASE r.err # "" -> r
              [] i > Len(union) -> r
              [] OTHER -> variants(keys(r, union[i].name, union[i].fields, 1), i + 1)
    IN variants([err |-> "", fields |-> <<>>], 1)

RECURSIVE collectRequestedFields(_, _, _)
\* collectRequestedFields(model, objectName, schema, tree): [err, fields]
collectRequestedFields(model, objectName, tree) ==
    LET object == model[objectName]
        fields == simplifyResolveTree(tree, objectName)
        push(r, f, propType, args, children) ==
            IF children.err # "" THEN [r EXCEPT !.err = children.err]
            ELSE addRequest(r, f.name, propType, FieldRequest(f.alias, children.fields, args, ""))
        thrown(map) == {i \in 1..Len(map) : map[i].r.err # ""}
        merge(r, f, propType, map) ==
            IF thrown(map) # {}
            THEN [r EXCEPT !.err = map[CHOOSE i \in thrown(map) : \A j \in thrown(map) : i <= j].r.err]
            ELSE push(r, f, propType, Undefined,
                     mergeUnionRequests([i \in 1..Len(map) |-> [name |-> map[i].name, fields |-> map[i].r.fields]]))
        union(r, f, propType, names) ==
            merge(r, f, propType,
                  [i \in 1..Len(names) |->
                      [name |-> names[i], r |-> collectRequestedFields(model, names[i], f)]])
        field(r, f, propType) ==
            CASE propType.kind \in {"scalar", "enum"} ->
                    [r EXCEPT !.fields = Assign(@, f.name,
                        [name |-> f.name, propType |-> propType,
                         requests |-> <<FieldRequest(f.name, <<>>, Undefined, "")>>])]
              [] propType.kind = "object" ->
                    push(r, f, propType, Undefined, collectRequestedFields(model, propType.name, f))
              [] propType.kind = "fk" ->
                    push(r, f, propType, Undefined, collectRequestedFields(model, propType.foreignEntity, f))
              [] propType.kind = "list-relation" ->
                    push(r, f, propType, f.args, collectRequestedFields(model, propType.entity, f))
              [] propType.kind = "union" ->
                    union(r, f, propType, model[propType.name].variants)
              [] OTHER -> [r EXCEPT !.err = "Error"]
        RECURSIVE loop(_, _)
        loop(r, i) ==
            CASE r.err # "" -> r
              [] i > Len(fields) -> r
              [] OTHER -> loop(field(r, fields[i], object.properties[fields[i].name]), i + 1)
    IN loop([err |-> "", fields |-> <<>>], 1)

\* ---- the selections examined: up to MaxSelected fields of Account, every
\* property under its own name and under two other keys
ScalarTree(alias, name) == ResolveTree(alias, name, Undefined, <<>>)

IdTree(alias, name, typeName) ==
    ResolveTree(alias, name, Undefined, [t \in {typeName} |-> <<ScalarTree("id", "id")>>])

\* what is selected below every property of Account
AccountSelection == [
    id          |-> <<>>,
    status      |-> <<>>,
    extra       |-> [Extra |-> <<ScalarTree("memo", "memo"), ScalarTree("note", "memo"),
                                 IdTree("account", "account", "Account"),
                                 IdTree("holder", "account", "Account")>>],
    owner       |-> [Account |-> <<ScalarTree("id", "id"), ScalarTree("key", "id")>>],
    history     |-> [HistoricalBalance |-> <<ScalarTree("id", "id"),
                                             IdTree("account", "account", "Account"),
                                             IdTree("of", "account", "Account")>>],
    payload     |-> [Extra    |-> <<ScalarTree("memo", "memo"),
                                    IdTree("account", "account", "Account")>>,
                     Transfer |-> <<ScalarTree("text", "memo"), ScalarTree("amount", "amount"),
                                    IdTree("payer", "account", "Account"),
                                    IdTree("account", "account", "Account")>>],
    constructor |-> [Account |-> <<ScalarTree("id", "id")>>]]

AccountTrees ==
    {ResolveTree(alias, name,
                 IF name = "history" /\ alias # name
                 THEN ListArgs(Undefined, Undefined, Lit(1), Undefined)
                 ELSE Undefined,
                 AccountSelection[name]) :
        name \in DOMAIN AccountSelection, alias \in {"first", "second"}}
    \cup {ResolveTree(name, name, Undefined, AccountSelection[name]) : name \in DOMAIN AccountSelection}

Selections ==
    {[entityName |-> "Account",
      tree |-> ResolveTree("accounts", "accounts", Undefined, [Account |-> fs])] :
        fs \in {s \in UNION {[1..n -> AccountTrees] : n \in 1..MaxSelected} :
                    \A i, j \in 1..Len(s) : s[i].alias = s[j].alias => i = j}}

RfIdle ==
    /\ selection = <<>>
    /\ rfPc = "idle"
    /\ requested = <<>>

\* requestedFields(model, entityName, info)
requestedFields ==
    /\ rfPc = "start"
    /\ LET returned(r) ==
               /\ rfPc' = IF r.err # "" THEN "threw" ELSE "done"
               /\ requested' = r
       IN returned(collectRequestedFields(RequestedModel, selection.entityName, selection.tree))
    /\ UNCHANGED <<selection, txVars, srvVars, aliases, allocated, selVars, whVars, curVars, connVars, rowVars, keyVars>>

\* ----------------------------------------------------------------- row shaping
\* QueryBuilder.toResult / mapRow: the rows of the reply become records.
\* A row is the sequence of its cells, JavaScript values as the driver
\* delivers them; a record is an object with its keys in insertion order.

\* rec[key] = value
Record_set(rec, key, value) ==
    LET at == {i \in 1..Len(rec.pairs) : rec.pairs[i].k = key}
    IN  IF at = {}
        THEN JObj(Append(rec.pairs, [k |-> key, v |-> value]))
        ELSE JObj([i \in 1..Len(rec.pairs) |->
                      IF i \in at THEN [k |-> key, v |-> value] ELSE rec.pairs[i]])

\* row[index]
Cell(row, index) ==
    IF index + 1 \in 1..Len(row) THEN row[index + 1] ELSE JS.undefined

\* !value
Falsy(value) ==
    \/ value.j \in {"undefined", "null"}
    \/ value = JS.false
    \/ value.j = "num" /\ value.int = 0 /\ value.frac = <<>> /\ ~value.inf
    \/ value.j = "str" /\ value.s = <<>>

RECURSIVE mapRow(_, _, _)
\* mapRow(row, fields, ifType); a missing ifType is ""
mapRow(row, fields, ifType) ==
    LET ifTypeOf(req) == IF "ifType" \in DOMAIN req THEN req.ifType ELSE ""
        shape(rec, kind, req) ==
            CASE ifTypeOf(req) # ifType -> rec
              [] kind \in {"scalar", "enum", "list"} ->
                    Record_set(rec, req.alias, Cell(row, req.index))
              [] kind = "object" ->
                    IF Falsy(Cell(row, req.index))
                    THEN Record_set(rec, req.alias, mapRow(row, req.children, ""))
                    ELSE rec
              [] kind = "union" ->
                    IF Cell(row, req.index).j \notin {"undefined", "null"}
                    THEN Record_set(rec, req.alias,
                                    Record_set(mapRow(row, req.children, Cell(row, req.index).s),
                                               "isTypeOf", Cell(row, req.index)))
                    ELSE rec
              [] kind = "fk" ->
                    IF Cell(row, req.index).j \notin {"undefined", "null"}
                    THEN Record_set(rec, req.alias, mapRow(row, req.children, ""))
                    ELSE rec
              [] kind = "list-relation" ->
                    Record_set(rec, req.alias,
                               JArr([n \in 1..Len(Cell(row, req.index).items) |->
                                        mapRow(Cell(row, req.index).items[n].items, req.children, "")]))
        RECURSIVE requests(_, _, _, _)
        requests(rec, kind, reqs, j) ==
            IF j > Len(reqs) THEN rec
            ELSE requests(shape(rec, kind, reqs[j]), kind, reqs, j + 1)
        RECURSIVE keys(_, _)
        keys(rec, i) ==
            IF i > Len(fields) THEN rec
            ELSE keys(requests(rec, fields[i].propType.kind, fields[i].requests, 1), i + 1)
    IN  keys(JObj(<<>>), 1)

\* ---- what the database delivers
\* the tables read: the second historical balance has no account, the
\* second account no extra
RowDatabase ==
    [account |-> AccountRows,
     historical_balance |-> {[id |-> 1, account_id |-> 1, balance |-> 10],
                             [id |-> 2, account_id |-> 0, balance |-> 60],
                             [id |-> 3, account_id |-> 2, balance |-> 60]}]

\* the cell of a column in the row of env
RowCell(expr, env) ==
    LET Number(v) == IF v.null THEN JS.null ELSE JNumber(FALSE, v.n, <<>>, FALSE)
    IN  IF expr.e = "isnull"
        THEN IF env[expr.x.alias].present /\ ~env[expr.x.alias].row[expr.x.column].isNull
             THEN JS.false ELSE JS.true
        ELSE Number(Val(expr, env))

\* result.rows of a statement
ResultRows(q, db) ==
    {[i \in 1..Len(q.columns) |-> RowCell(q.columns[i].expr, en)] : en \in Rows(q, <<>>, db)}

\* ---- the field trees shaped: an fk with or without an embedded object
\* below it, an embedded object, each next to a scalar, under its own name,
\* under another key and under the name of that scalar
AccountFields ==
    {<<Leaf("Account", "id")>>,
     <<Field("Account", "extra", <<Request("extra", NoArgs, <<Leaf("Extra", "score")>>)>>)>>,
     <<Leaf("Account", "id"), Leaf("Account", "wallet"),
       Field("Account", "extra", <<Request("extra", NoArgs, <<Leaf("Extra", "score")>>)>>)>>}

RowRequests ==
    UNION {{SelectRequest("HistoricalBalance", NoArgs, fs) :
                fs \in {<<Field("HistoricalBalance", "account", <<Request(alias, NoArgs, children)>>),
                          Leaf("HistoricalBalance", "balance")>>,
                        <<Leaf("HistoricalBalance", "balance"),
                          Field("HistoricalBalance", "account", <<Request(alias, NoArgs, children)>>)>>}} :
            alias \in {"account", "holder", "balance"}, children \in AccountFields}
    \cup UNION {{SelectRequest("Account", NoArgs, fs) :
                fs \in {<<Field("Account", "extra", <<Request(alias, NoArgs, <<Leaf("Extra", "score")>>)>>),
                          Leaf("Account", "wallet")>>,
                        <<Leaf("Account", "wallet"),
                          Field("Account", "extra", <<Request(alias, NoArgs, <<Leaf("Extra", "score")>>)>>)>>}} :
            alias \in {"extra", "wallet"}}

RowIdle ==
    /\ rowIn = <<>>
    /\ rowPc = "idle"
    /\ rowOut = <<>>

\* executeSelect up to its await: select fills in the indexes of the requests
mapRow_select ==
    /\ rowPc = "start"
    /\ LET planned(r) ==
               rowIn' = [rowIn EXCEPT !.fields = r.fields, !.q = r.q]
       IN planned(select(NewBuilder, rowIn.request.entity, rowIn.request.args,
                         rowIn.request.fields, NoVariant))
    /\ rowPc' = "awaitQuery"
    /\ UNCHANGED <<rowOut, txVars, srvVars, aliases, allocated, selVars, whVars, curVars, connVars, rfVars, keyVars>>

\* the database answers; toResult takes a row of the reply
mapRow_row ==
    /\ rowPc = "awaitQuery"
    /\ \E row \in ResultRows(rowIn.q, RowDatabase) :
          rowIn' = [rowIn EXCEPT !.row = row]
    /\ rowPc' = "row"
    /\ UNCHANGED <<rowOut, txVars, srvVars, aliases, allocated, selVars, whVars, curVars, connVars, rfVars, keyVars>>

\* out[i] = this.mapRow(rows[i], fields)
mapRow_call ==
    /\ rowPc = "row"
    /\ rowOut' = mapRow(rowIn.row, rowIn.fields, "")
    /\ rowPc' = "done"
    /\ UNCHANGED <<rowIn, txVars, srvVars, aliases, allocated, selVars, whVars, curVars, connVars, rfVars, keyVars>>


\* --------------------------------------------------------- rows of a union
\* A union property from the selection to the record: requestedFields
\* merges the selections of the variants, populateColumns gives every
\* request its column, mapRow shapes a row.

\* populateColumns(columns, cursor, fields$) on a tree of requestedFields;
\* r: [columns, fields].  A column is the path of the cursor and what is
\* read there, the same expression taking the same index.
RECURSIVE requested_populateColumns(_, _)
requested_populateColumns(r, cursor) ==
    LET column(q, i, j) ==
            LET kind == q.fields[i].propType.kind
                name == q.fields[i].name
                plain(c) ==
                    [columns |-> c.columns,
                     fields  |-> [q.fields EXCEPT ![i].requests[j].index = c.idx]]
                put(c, sub) ==
                    [columns |-> sub.columns,
                     fields  |-> [q.fields EXCEPT ![i].requests[j] =
                                    [@ EXCEPT !.index = c.idx, !.children = sub.fields]]]
                walk(c, cu) ==
                    put(c, requested_populateColumns(
                               [columns |-> c.columns, fields |-> q.fields[i].requests[j].children], cu))
                added(expr) == ColumnSet_add_text(q.columns, expr, expr)
            IN  CASE kind \in {"scalar", "enum", "list"} -> plain(added(<<cursor, name>>))
                  [] kind = "object" -> walk(added(<<cursor, name, "IS NULL">>), Append(cursor, name))
                  [] kind = "union"  -> walk(added(<<Append(cursor, name), "isTypeOf">>), Append(cursor, name))
                  [] kind = "fk"     -> walk(added(<<Append(cursor, name), "id">>), Append(cursor, name))
                  [] kind = "list-relation" ->
                        plain(added(<<cursor, name, q.fields[i].requests[j].alias, "array">>))
        RECURSIVE requests(_, _, _)
        requests(q, i, j) ==
            IF j > Len(q.fields[i].requests) THEN q
            ELSE requests(column(q, i, j), i, j + 1)
        RECURSIVE fields(_, _)
        fields(q, i) ==
            IF i > Len(q.fields) THEN q
            ELSE fields(requests(q, i, 1), i + 1)
    IN  fields(r, 1)

\* ---- the selections examined: payload next to id, under its own name
\* and under another key, once or twice
UnionSelections ==
    {[entityName |-> "Account",
      tree |-> ResolveTree("accounts", "accounts", Undefined, [Account |-> fs])] :
        fs \in {<<ResolveTree(alias, "payload", Undefined, AccountSelection.payload)>> :
                    alias \in {"payload", "first"}}
           \cup {<<ScalarTree("id", "id"),
                   ResolveTree(alias, "payload", Undefined, AccountSelection.payload)>> :
                    alias \in {"payload", "first"}}
           \cup {<<ResolveTree("first", "payload", Undefined, AccountSelection.payload),
                   ResolveTree("second", "payload", Undefined, AccountSelection.payload)>>}}

\* what the database delivers in a column: the name of a variant or NULL
\* as discriminator, a number or NULL elsewhere
UnionCells(column, position) ==
    CASE column[Len(column)] = "isTypeOf" ->
            {JS.null} \cup {JStr(RequestedModel.Payload.variants[v]) :
                                v \in 1..Len(RequestedModel.Payload.variants)}
      [] column[Len(column)] = "IS NULL" -> {JS.true, JS.false}
      [] OTHER -> {JS.null, JNumber(FALSE, position, <<>>, FALSE)}

\* select(): populateColumns on the requested fields
Union_populateColumns ==
    /\ rfPc = "done"
    /\ rowPc = "start"
    /\ LET planned(r) ==
               rowIn' = [rowIn EXCEPT !.fields = r.fields, !.q = r.columns]
       IN planned(requested_populateColumns([columns |-> <<>>, fields |-> requested.fields], <<>>))
    /\ rowPc' = "awaitQuery"
    /\ UNCHANGED <<rowOut, txVars, srvVars, aliases, allocated, selVars, whVars, curVars,
                   connVars, rfVars, keyVars>>

\* the database answers; toResult takes a row of the reply
Union_row ==
    /\ rfPc = "done"
    /\ rowPc = "awaitQuery"
    /\ \E row \in [1..Len(rowIn.q) -> UNION {UnionCells(rowIn.q[i].expr, i) : i \in 1..Len(rowIn.q)}] :
          /\ \A i \in 1..Len(rowIn.q) : row[i] \in UnionCells(rowIn.q[i].expr, i)
          /\ rowIn' = [rowIn EXCEPT !.row = row]
    /\ rowPc' = "row"
    /\ UNCHANGED <<rowOut, txVars, srvVars, aliases, allocated, selVars, whVars, curVars,
                   connVars, rfVars, keyVars>>

\* ------------------------------------------------- rows of a full-text search
\* QueryBuilder.toFulltextSearchResult: a row of the reply becomes an
\* FtsItem {rank, highlight, item}.

\* toFulltextSearchResult(rows, fields) with the highlight read one column
\* further, where the item is when both are requested
toFulltextSearchResult_highlight_at_3(row, fields) ==
    LET isTypeOf  == Cell(row, 0)
        highlight == IF fields.highlight THEN Cell(row, 3) ELSE JS.undefined
        itemIdx   == IF fields.highlight THEN 3 ELSE 2
        item      ==
            IF fields.hasItem /\ isTypeOf.s \in DOMAIN fields.item
            THEN Record_set(mapRow(Cell(row, itemIdx).items, fields.item[isTypeOf.s], ""),
                            "isTypeOf", isTypeOf)
            ELSE JObj(<<[k |-> "isTypeOf", v |-> isTypeOf]>>)
    IN  JObj(<<[k |-> "rank", v |-> Cell(row, 1)],
               [k |-> "highlight", v |-> highlight],
               [k |-> "item", v |-> item]>>)

\* toFulltextSearchResult(rows, fields): out[i] for one row
toFulltextSearchResult(row, fields) ==
    LET isTypeOf  == Cell(row, 0)
        highlight == IF fields.highlight THEN Cell(row, 2) ELSE JS.undefined
        itemIdx   == IF fields.highlight THEN 3 ELSE 2
        \* fields.item?.[isTypeOf]
        item      ==
            IF fields.hasItem /\ isTypeOf.s \in DOMAIN fields.item
            THEN Record_set(mapRow(Cell(row, itemIdx).items, fields.item[isTypeOf.s], ""),
                            "isTypeOf", isTypeOf)
            ELSE JObj(<<[k |-> "isTypeOf", v |-> isTypeOf]>>)
    IN  JObj(<<[k |-> "rank", v |-> Cell(row, 1)],
               [k |-> "highlight", v |-> highlight],
               [k |-> "item", v |-> item]>>)

\* ---- what the database delivers
\* the four columns a source select of the union projects for a row, by
\* name: the entity, a rank, a headline, the requested columns as an array
FtsSourceRow(src, en) ==
    [isTypeOf  |-> JStr(src.entity),
     rank      |-> JNumber(FALSE, en[src.alias].row.id, <<>>, FALSE),
     highlight |-> JStr(src.table),
     item      |-> JArr([i \in 1..Len(src.columns) |-> RowCell(src.columns[i].expr, en)])]

\* result.rows of the union: of every row of every source the columns the
\* outer SELECT lists, in its order
FtsResultRows(q, db) ==
    UNION {{[c \in 1..Len(q.cols) |->
                FtsSourceRow(q.srcSelects[s], JoinEnv(q.srcSelects[s].joins, 1,
                                                      (q.srcSelects[s].alias :> Bind(r)), db))[q.cols[c]]] :
               r \in db[q.srcSelects[s].table]} :
           s \in 1..Len(q.srcSelects)}

\* ---- the searches examined: highlight and item requested or not, the
\* item with fields of both sources, of one of them, or of none
FtsItems ==
    {[Account |-> AccountId, HistoricalBalance |-> HistoricalBalanceTree],
     [Account |-> <<Leaf("Account", "wallet"), Leaf("Account", "id")>>],
     [HistoricalBalance |-> HistoricalBalanceTree],
     <<>>}

FtsRowRequests ==
    {FtsRequest([text |-> Lit(7), limit |-> l, offset |-> Undefined,
                 where |-> [Account |-> Undefined, HistoricalBalance |-> Undefined]],
                [highlight |-> hl, hasItem |-> it, item |-> item]) :
        l \in Pagination, hl \in BOOLEAN, it \in BOOLEAN, item \in FtsItems}

\* executeFulltextSearch up to its await: fulltextSearchSelect fills in the
\* indexes of the requests of $fields.item
Fts_select ==
    /\ rowPc = "start"
    /\ rowIn.request.kind = "fts"
    /\ LET planned(r) ==
               rowIn' = [rowIn EXCEPT !.q = r.q,
                                      !.fields = [rowIn.request.ftsFields EXCEPT !.item = r.item]]
       IN planned(fulltextSearchSelect(NewBuilder, rowIn.request.queryName, rowIn.request.args,
                                       rowIn.request.ftsFields))
    /\ rowPc' = "awaitQuery"
    /\ UNCHANGED <<rowOut, txVars, srvVars, aliases, allocated, selVars, whVars, curVars,
                   connVars, rfVars, keyVars>>

\* the database answers; toFulltextSearchResult takes a row of the reply
Fts_row ==
    /\ rowPc = "awaitQuery"
    /\ rowIn.request.kind = "fts"
    /\ \E row \in FtsResultRows(rowIn.q, RowDatabase) :
          rowIn' = [rowIn EXCEPT !.row = row]
    /\ rowPc' = "row"
    /\ UNCHANGED <<rowOut, txVars, srvVars, aliases, allocated, selVars, whVars, curVars,
                   connVars, rfVars, keyVars>>

\* out[i] = {rank: row[1], highlight, item}
Fts_toFulltextSearchResult ==
    /\ rowPc = "row"
    /\ rowIn.request.kind = "fts"
    /\ rowOut' = toFulltextSearchResult(rowIn.row, rowIn.fields)
    /\ rowPc' = "done"
    /\ UNCHANGED <<rowIn, txVars, srvVars, aliases, allocated, selVars, whVars, curVars,
                   connVars, rfVars, keyVars>>

\* ------------------------------------------------------------------ where keys
\* src/src/where.ts, parseWhereField.  A key is the sequence of the words
\* its underscores separate: x_not_in is <<"x", "not", "in">>.
ENDINGS == <<
    <<"not">>,
    <<"gt">>,
    <<"gte">>,
    <<"lt">>,
    <<"lte">>,
    <<"in">>,
    <<"not", "in">>,
    <<"contains">>,
    <<"not", "contains">>,
    <<"starts", "with">>,
    <<"not", "starts", "with">>,
    <<"ends", "with">>,
    <<"not", "ends", "with">> >>

\* OPS_REGEX.exec(field) for ^(.*)_(ending|...)$: the greedy (.*) takes the
\* longest prefix that an underscore and one of the endings complete
OPS_REGEX_exec(field) ==
    LET ends == {k \in 1..(Len(field) - 1) :
                    \E e \in 1..Len(ENDINGS) : SubSeq(field, k + 1, Len(field)) = ENDINGS[e]}
        m(k) == <<field, SubSeq(field, 1, k), SubSeq(field, k + 1, Len(field))>>
    IN  IF ends = {} THEN <<>>
        ELSE m(CHOOSE k \in ends : \A j \in ends : j <= k)

\* endingToOperator(ending): [err, op]
endingToOperator(ending) ==
    CASE ending = <<"not">>       -> [err |-> "", op |-> "!="]
      [] ending = <<"gt">>        -> [err |-> "", op |-> ">"]
      [] ending = <<"gte">>       -> [err |-> "", op |-> ">="]
      [] ending = <<"lt">>        -> [err |-> "", op |-> "<"]
      [] ending = <<"lte">>       -> [err |-> "", op |-> "<="]
      [] ending = <<"in">>        -> [err |-> "", op |-> "IN"]
      [] ending = <<"not", "in">> -> [err |-> "", op |-> "NOT IN"]
      [] OTHER                    -> [err |-> "Unsupported operator", op |-> ""]

\* parseWhereField(field) of src/src/where.ts: [err, op, field]
where_parseWhereField(field) ==
    LET m == OPS_REGEX_exec(field)
    IN  IF m = <<>> THEN [err |-> "", op |-> "=", field |-> field]
        ELSE [err   |-> endingToOperator(m[3]).err,
              op    |-> endingToOperator(m[3]).op,
              field |-> IF endingToOperator(m[3]).err = "" THEN m[2] ELSE <<>>]

\* ---- the keys examined: up to MaxWords words, of property names and of
\* the words of the endings
MaxWords == 4

KeyWords == {"x", "not", "gt", "lte", "in", "contains", "starts", "ends", "with"}

WhereKeys == UNION {[1..n -> KeyWords] : n \in 1..MaxWords}

KeyIdle ==
    /\ keyIn = <<>>
    /\ keyPc = "idle"
    /\ keyOut = <<>>

\* parseWhereField(key)
Parse_parseWhereField ==
    /\ keyPc = "start"
    /\ keyOut' = where_parseWhereField(keyIn)
    /\ keyPc' = IF where_parseWhereField(keyIn).err # "" THEN "threw" ELSE "parsed"
    /\ UNCHANGED <<keyIn, txVars, srvVars, aliases, allocated, selVars, whVars,
                   curVars, connVars, rfVars, rowVars>>

MoreIdle == CurIdle /\ ConnIdle /\ RfIdle /\ RowIdle /\ KeyIdle

\* ========================================================= specifications

TxInit == TxIdle /\ SrvIdle /\ QbIdle /\ SelIdle /\ WhIdle /\ MoreIdle

TxNext ==
    \/ TxGet
    \/ startTransaction_connected
    \/ startTransaction_connectFailed
    \/ startTransaction_started
    \/ startTransaction_startFailed
    \/ TxSettle
    \/ TxClose
    \/ TxThen
    \/ TxCommit
    \/ context_begin
    \/ SrvConnected
    \/ SrvStarted
    \/ willSendResponse
    \/ SrvSettled

\* The pool, the database and the promise job queue answer every pending
\* request; callers are free to call or not to call get() and close().
TxProgress ==
    \/ startTransaction_connected
    \/ startTransaction_connectFailed
    \/ startTransaction_started
    \/ startTransaction_startFailed
    \/ TxSettle
    \/ TxThen
    \/ TxCommit
    \/ SrvConnected
    \/ SrvStarted
    \/ SrvSettled

SpecTx     == TxInit /\ [][TxNext]_vars
SpecTxFair == TxInit /\ [][TxNext]_vars /\ WF_vars(TxProgress)

AliasInit == TxIdle /\ SrvIdle /\ QbIdle /\ SelIdle /\ WhIdle /\ MoreIdle
AliasNext == AliasAdd
SpecAlias == AliasInit /\ [][AliasNext]_vars

\* one executeSelect or executeFulltextSearch call on a fresh QueryBuilder,
\* for every request and every content of the tables
SelectInit ==
    /\ TxIdle /\ SrvIdle /\ QbIdle /\ WhIdle /\ MoreIdle
    /\ request \in SelectRequests \cup FtsRequests
    /\ database \in Databases
    /\ selPc = "start"
    /\ plan = [err |-> "", q |-> Nil, fields |-> <<>>, calls |-> <<>>]
    /\ params = <<>>
    /\ stmts = <<>>
    /\ reply = [status |-> "none", ids |-> {}]
    /\ result = {}

SelectNext ==
    \/ executeSelect
    \/ executeFulltextSearch
    \/ query_settled
    \/ executeSelect_toResult
    \/ executeFulltextSearch_toResult

SpecSelect == SelectInit /\ [][SelectNext]_vars

\* hasConditions, generateWhere and select applied to every where-input
WhereInit ==
    /\ TxIdle /\ SrvIdle /\ QbIdle /\ SelIdle /\ MoreIdle
    /\ whereIn \in WhereInputs
    /\ wherePc = "start"
    /\ whereOut = [has |-> "", text |-> <<>>, sql |-> <<>>]

WhereNext ==
    \/ Where_hasConditions
    \/ Where_generateWhere
    \/ Where_select

SpecWhere == WhereInit /\ [][WhereNext]_vars

\* encodeCursor and decodeCursor applied to every cursor, and decodeCursor to
\* every value a client sends
CursorInit ==
    /\ TxIdle /\ SrvIdle /\ QbIdle /\ SelIdle /\ WhIdle /\ ConnIdle /\ RfIdle /\ RowIdle /\ KeyIdle
    /\ cursorIn \in CursorInputs
    /\ cursorPc = "start"
    /\ cursorOut = [value |-> <<>>, decoded |-> [ok |-> FALSE, error |-> "", cursor |-> JS.undefined]]

CursorNext ==
    \/ encodeCursor_call
    \/ decodeCursor_argument
    \/ decodeCursor_call

SpecCursor == CursorInit /\ [][CursorNext]_vars

\* resolveEntityConnection on every connection field and every content of
\* the tables
ConnectionInit ==
    /\ TxIdle /\ SrvIdle /\ QbIdle /\ WhIdle /\ CurIdle /\ RfIdle /\ RowIdle /\ KeyIdle
    /\ connArgs \in ConnectionRequests
    /\ database \in Databases
    /\ connPc = "start"
    /\ connLocal = [calls |-> <<>>, offset |-> 0, limit |-> 0, listLength |-> 0]
    /\ response = [error |-> "", edges |-> [set |-> FALSE, items |-> <<>>],
                   pageInfo |-> [set |-> FALSE], totalCount |-> [set |-> FALSE, n |-> 0]]
    /\ request = [kind |-> "none"]
    /\ selPc = "idle"
    /\ plan = [err |-> "", q |-> Nil, fields |-> <<>>, calls |-> <<>>]
    /\ params = <<>>
    /\ stmts = <<>>
    /\ reply = [status |-> "none", ids |-> {}]
    /\ result = {}

ConnectionNext ==
    \/ resolveEntityConnection
    \/ resolveEntityConnection_listed
    \/ resolveEntityConnection_totalCount
    \/ resolveEntityConnection_counted

SpecConnection == ConnectionInit /\ [][ConnectionNext]_vars

\* requestedFields on every selection of Selections
RequestedInit ==
    /\ TxIdle /\ SrvIdle /\ QbIdle /\ SelIdle /\ WhIdle /\ CurIdle /\ ConnIdle /\ RowIdle /\ KeyIdle
    /\ selection \in Selections
    /\ rfPc = "start"
    /\ requested = [err |-> "", fields |-> <<>>]

RequestedNext == requestedFields

SpecRequested == RequestedInit /\ [][RequestedNext]_vars

\* a statement planned for every request of RowRequests, and mapRow on
\* every row the tables give it
RowInit ==
    /\ TxIdle /\ SrvIdle /\ QbIdle /\ SelIdle /\ WhIdle /\ CurIdle /\ ConnIdle /\ RfIdle /\ KeyIdle
    /\ rowIn \in {[request |-> r, fields |-> <<>>, q |-> Nil, row |-> <<>>] : r \in RowRequests}
    /\ rowPc = "start"
    /\ rowOut = JS.undefined

RowNext ==
    \/ mapRow_select
    \/ mapRow_row
    \/ mapRow_call

SpecRow == RowInit /\ [][RowNext]_vars

\* parseWhereField applied to every key
ParseInit ==
    /\ TxIdle /\ SrvIdle /\ QbIdle /\ SelIdle /\ WhIdle
    /\ CurIdle /\ ConnIdle /\ RfIdle /\ RowIdle
    /\ keyIn \in WhereKeys
    /\ keyPc = "start"
    /\ keyOut = <<>>

ParseNext == Parse_parseWhereField

SpecParse == ParseInit /\ [][ParseNext]_vars

\* a union property from the selection to the record of a row
UnionInit ==
    /\ TxIdle /\ SrvIdle /\ QbIdle /\ SelIdle /\ WhIdle
    /\ CurIdle /\ ConnIdle /\ KeyIdle
    /\ selection \in UnionSelections
    /\ rfPc = "start"
    /\ requested = [err |-> "", fields |-> <<>>]
    /\ rowIn = [request |-> [kind |-> "none"], fields |-> <<>>, q |-> <<>>, row |-> <<>>]
    /\ rowPc = "start"
    /\ rowOut = JS.undefined

UnionNext ==
    \/ requestedFields
    \/ Union_populateColumns
    \/ Union_row
    \/ mapRow_call

SpecUnion == UnionInit /\ [][UnionNext]_vars

\* a full-text search from the request to the FtsItem of a row
FtsInit ==
    /\ TxIdle /\ SrvIdle /\ QbIdle /\ SelIdle /\ WhIdle
    /\ CurIdle /\ ConnIdle /\ RfIdle /\ KeyIdle
    /\ rowIn \in {[request |-> r, fields |-> <<>>, q |-> Nil, row |-> <<>>] : r \in FtsRowRequests}
    /\ rowPc = "start"
    /\ rowOut = JS.undefined

FtsNext ==
    \/ Fts_select
    \/ Fts_row
    \/ Fts_toFulltextSearchResult

SpecFts == FtsInit /\ [][FtsNext]_vars

\* ================================================================= claims

TxAsked(c) == callers[c].state \in {"waiting", "resolved", "rejected"}

C6_SingleTransaction ==
    /\ connectCalls <= 1
    /\ startCalls <= 1
    /\ (\E c \in Callers : TxAsked(c)) => connectCalls = 1
    /\ stPc \in {"awaitStart", "started", "startFailed"} => startCalls = 1
    /\ \A c \in Callers : callers[c].state = "resolved" =>
          /\ stPc = "started"
          /\ startCalls = 1
          /\ callers[c].value = client.value
    /\ \A c, d \in Callers :
          callers[c].state = "resolved" /\ callers[d].state = "resolved"
             => callers[c].value = callers[d].value

C6_Witness ==
    /\ \A c \in Callers : callers[c].state = "resolved"
    /\ connectCalls = 1
    /\ startCalls = 1

\* ---- C7: under fairness, once close() has been called (or the response
\* hook has run) the client obtained from the pool is eventually released
\* and stays released; a failed START TRANSACTION releases the client and
\* rejects the promise every caller of get() holds; a failed COMMIT or
\* ROLLBACK still releases.
TxHeld == stPc \in {"awaitStart", "started"} /\ releases = 0

C7_ReleasedAfterClose ==
    /\ closed ~> [](stPc # "awaitConnect" /\ ~TxHeld)
    /\ (srvPc = "awaitRollback") ~> [](~srvHeld /\ srvReleases = 1)
    /\ [](stPc = "startFailed" => releases >= 1 /\ client.state = "rejected")
    /\ [](srvPc = "contextFailed" => ~srvHeld)
    /\ \A c \in Callers :
          (stPc = "startFailed" /\ callers[c].state = "waiting")
             ~> (callers[c].state = "rejected")

C7_Witness ==
    /\ closed
    /\ \E k \in CloseIds : closes[k] = "commitIgnored"
    /\ releases >= 1
    /\ srvPc = "hookFailed"
    /\ ~srvHeld

\* ========================================================= planner claims
\* the call has planned: it sent its statement or threw
Planning_over == selPc \in {"awaitQuery", "threw", "rejected", "resolved", "done"}

\* the positions of a token in a text
Occurrences(text, token) == {i \in 1..Len(text) : text[i] = token}

\* C1: for any entity, list arguments and requested-field tree,
\* executeSelect sends exactly one statement to the connection, and every
\* list-relation request is an array(<sub-select>) column of that statement.
C1_SingleStatement ==
    (request.kind = "select" /\ Planning_over) =>
        /\ Len(stmts) = 1
        /\ \A i \in 1..Len(plan.fields) :
              plan.fields[i].propType.kind = "list-relation" =>
                  \A j \in 1..Len(plan.fields[i].requests) :
                      /\ plan.fields[i].requests[j].expr.e = "array"
                      /\ Text(plan.fields[i].requests[j].expr)[1] = Sql("array(")

\* C2: hasConditions(w) is false if and only if generateWhere(cursor, w)
\* produces the empty string, and so the WHERE that select() emits is
\* always followed by a predicate.
C2_WhereRoundTrip ==
    /\ wherePc \in {"generated", "selected"} =>
          ((whereOut.has = "false") <=> (whereOut.text = <<>>))
    /\ wherePc = "selected" =>
          \A i \in Occurrences(whereOut.sql, Sql("WHERE")) :
              /\ i < Len(whereOut.sql)
              /\ whereOut.sql[i + 1] # Sql("AND")

\* C4: within a plan, every registration of the same (table, on) pair
\* through Cursor.child answers with the same alias, distinct pairs get
\* distinct aliases, and the statement holds exactly one LEFT OUTER JOIN for
\* each pair registered.
C4_JoinDedup ==
    /\ \A i, j \in 1..Len(plan.calls) :
          (plan.calls[i].key = plan.calls[j].key) <=> (plan.calls[i].alias = plan.calls[j].alias)
    /\ Len(stmts) = 1 =>
          Cardinality(Occurrences(stmts[1].text, Sql("LEFT OUTER JOIN")))
              = Cardinality({plan.calls[i].key : i \in 1..Len(plan.calls)})

\* the rows have come back for a statement whose plan registered one pair
\* twice (projection and ORDER BY of a sub-select) and another pair on the
\* same table with another on-expression (a second sub-select)
C4_Witness ==
    /\ selPc = "done"
    /\ Len(stmts) = 1
    /\ \E i, j, k \in 1..Len(plan.calls) :
          /\ i < j
          /\ plan.calls[i].key = plan.calls[j].key
          /\ plan.calls[k].key # plan.calls[i].key
          /\ plan.calls[k].key[1] = plan.calls[i].key[1]
          /\ plan.calls[k].alias # plan.calls[i].alias

RECURSIVE IndexesHold(_, _)
\* every request of the tree reads, at its index, the column planned for
\* it in the select q that owns it; the children of a list-relation request
\* are owned by its sub-select
IndexesHold(fields, q) ==
    \A i \in 1..Len(fields) : \A j \in 1..Len(fields[i].requests) :
        LET req == fields[i].requests[j]
        IN  /\ req.index + 1 \in 1..Len(q.columns)
            /\ q.columns[req.index + 1].expr = req.expr
            /\ q.columns[req.index + 1].text = Text(req.expr)
            /\ IF fields[i].propType.kind = "list-relation"
               THEN IndexesHold(req.children, req.expr.q)
               ELSE IndexesHold(req.children, q)

RECURSIVE Owned(_)
\* the requests one select owns: those of its tree, down through objects
\* and foreign keys, each list-relation request taken as one
Owned(fields) ==
    UNION {UNION {{[index |-> fields[i].requests[j].index,
                    text |-> Text(fields[i].requests[j].expr)]}
                  \cup (IF fields[i].propType.kind = "list-relation" THEN {}
                        ELSE Owned(fields[i].requests[j].children)) :
                  j \in 1..Len(fields[i].requests)} :
           i \in 1..Len(fields)}

\* C5: after select() has planned a field tree, the index of every request
\* is the zero-based position of its column expression in the projection
\* of the select that owns it, and two requests of one select share an
\* index only when their column texts are the same.
C5_IndexStability ==
    (request.kind = "select" /\ selPc \in {"awaitQuery", "rejected", "resolved", "done"}) =>
        /\ IndexesHold(plan.fields, plan.q)
        /\ \A a, b \in Owned(plan.fields) : a.index = b.index => a.text = b.text

\* the rows have come back for a tree whose list-relation field carries two
\* requests, the second at index 1, with indexes starting again inside the
\* sub-select, where the foreign key and its id share a column
C5_Witness ==
    /\ selPc = "done"
    /\ request.kind = "select"
    /\ Len(plan.fields) = 4
    /\ plan.fields[1].propType.kind = "list-relation"
    /\ plan.fields[1].requests[2].index = 1
    /\ plan.fields[2].requests[1].index = 2
    /\ LET account == plan.fields[1].requests[1].children[1].requests[1]
       IN  /\ account.index = 0
           /\ account.children[1].requests[1].index = 0
    /\ plan.fields[1].requests[1].children[2].requests[1].index = 1

\* C8: every placeholder $k of the statement sent has 1 <= k <= the number
\* of parameters and params[k-1] is the literal it was allocated for; every
\* parameter of the one vector is referred to, and no literal is written
\* into the text.
C8_ParamsBound ==
    \A s \in 1..Len(stmts) :
        /\ \A i \in 1..Len(stmts[s].text) :
              /\ stmts[s].text[i].t # "lit"
              /\ stmts[s].text[i].t = "param" =>
                    /\ stmts[s].text[i].k \in 1..Len(stmts[s].params)
                    /\ stmts[s].params[stmts[s].text[i].k] = stmts[s].text[i].v
        /\ {stmts[s].text[i].k : i \in {n \in 1..Len(stmts[s].text) : stmts[s].text[n].t = "param"}}
              = 1..Len(stmts[s].params)
        /\ stmts[s].params = params

\* a full-text statement went out with the text, a where literal of each
\* source, limit and offset in one vector, the text placeholder used by
\* both sources
C8_Witness ==
    /\ request.kind = "fts"
    /\ Len(stmts) = 1
    /\ Len(stmts[1].params) = 5
    /\ Cardinality(Occurrences(stmts[1].text, Dollar(1, Lit(7)))) >= 4
    /\ \E i \in 1..Len(stmts[1].text) : stmts[1].text[i] = Dollar(5, Lit(1))

\* ------------------------------------------------- what a filter means
RECURSIVE Satisfies(_, _, _, _)
RECURSIVE Holds(_, _, _, _)
\* one condition of a where-input on a row of the entity
Holds(cond, entity, row, db) ==
    LET f    == parseWhereField(cond.key)
        prop == Model[entity].properties[f.field]
    IN  CASE prop.kind = "scalar" /\ f.op = "in" ->
                \E i \in 1..Len(ensureArray(cond.arg)) :
                    ensureArray(cond.arg)[i].v = row[toColumn(f.field)]
          [] prop.kind = "scalar" /\ f.op = "not_in" ->
                \A i \in 1..Len(ensureArray(cond.arg)) :
                    ensureArray(cond.arg)[i].v # row[toColumn(f.field)]
          [] prop.kind = "scalar" ->
                Compare(Num(row[toColumn(f.field)]), whereOpToSqlOperator(f.op),
                        Num(cond.arg.v)) = "T"
          [] prop.kind = "fk" ->
                \E a \in db[toTable(prop.foreignEntity)] :
                    /\ a.id = row[toFkColumn(f.field)]
                    /\ Satisfies(cond.arg, prop.foreignEntity, a, db)

\* a row satisfies a where-input: its conditions and every AND branch, or
\* one of its OR branches
Satisfies(w, entity, row, db) ==
    IF w.t = "undefined" THEN TRUE
    ELSE LET ands  == IF w.AND.t = "undefined" THEN <<>> ELSE ensureArray(w.AND)
             ors   == IF w.OR.t = "undefined" THEN <<>> ELSE ensureArray(w.OR)
             group == /\ \A i \in 1..Len(w.conds) : Holds(w.conds[i], entity, row, db)
                      /\ \A i \in 1..Len(ands) : Satisfies(ands[i], entity, row, db)
         IN  IF Len(ors) = 0 THEN group
             ELSE group \/ \E i \in 1..Len(ors) : Satisfies(ors[i], entity, row, db)

\* the request is accounts(where: {history_<op>: W}) { id }
RelationFilter(op) ==
    /\ request.kind = "select"
    /\ request.entity = "Account"
    /\ request.args.where.t = "obj"
    /\ Len(request.args.where.conds) = 1
    /\ request.args.where.conds[1].key = [field |-> "history", suffix |-> op]

\* the rows of the relation of a parent that satisfy the inner where
RelatedSatisfying(parent) ==
    {h \in database.historical_balance :
        /\ h.account_id = parent.id
        /\ Satisfies(request.args.where.conds[1].arg, "HistoricalBalance", h, database)}

Related(parent) == {h \in database.historical_balance : h.account_id = parent.id}

\* C9: history_every: W selects exactly the parents all of whose related
\* rows satisfy W (a parent without related rows included); with a W
\* without conditions it restricts nothing.  The request is answered, and
\* answered with those parents.
C9_EveryFilter ==
    RelationFilter("every") =>
        /\ selPc \notin {"threw", "rejected"}
        /\ selPc = "done" =>
              result = {p.id : p \in {p \in database.account :
                                         RelatedSatisfying(p) = Related(p)}}

\* C10: history_some: W selects a parent iff a related row satisfies W and
\* history_none: W iff none does, for any W: the request is answered, with
\* those parents, so the two answers split the parents in two.
C10_SomeNoneFilter ==
    /\ RelationFilter("some") =>
          /\ selPc \notin {"threw", "rejected"}
          /\ selPc = "done" =>
                result = {p.id : p \in {p \in database.account : RelatedSatisfying(p) # {}}}
    /\ RelationFilter("none") =>
          /\ selPc \notin {"threw", "rejected"}
          /\ selPc = "done" =>
                result = {p.id : p \in {p \in database.account : RelatedSatisfying(p) = {}}}

\* ---------------------------------------------------------------- order by
\* the property a sort expression ends on
SortLeaf(x) ==
    CASE x.e = "col"   -> x.column
      [] x.e = "jtext" -> x.prop
      [] x.e = "cast"  -> x.x.prop

\* C11: for an orderBy list [o1, ..., on] the ORDER BY clause lists the
\* sort expressions of o1, ..., on in that order, also when entries through
\* the same fk/object prefix are not adjacent in the list.
C11_OrderByOrder ==
    (/\ request.kind = "select"
     /\ Len(stmts) = 1
     /\ request.args.orderBy.t = "arr") =>
        /\ Len(plan.q.orderByExps) = Len(request.args.orderBy.items)
        /\ \A i \in 1..Len(request.args.orderBy.items) :
              LET o == request.args.orderBy.items[i]
              IN  /\ plan.q.orderByExps[i].dir = o.dir
                  /\ SortLeaf(plan.q.orderByExps[i].x) = toColumn(o.path[Len(o.path)])
                  /\ Len(o.path) = 1 <=>
                        (plan.q.orderByExps[i].x.e = "col"
                         /\ plan.q.orderByExps[i].x.alias = plan.q.alias)

\* ------------------------------------------------------------------ cursors
\* C12: for every cursor c whose orderBy is a non-empty array of strings and
\* whose offset is a positive integer, decodeCursor(encodeCursor(c)) returns
\* c: the same orderBy sequence and the same offset.
C12_CursorRoundTrip ==
    (cursorPc = "decoded" /\ cursorIn.kind = "cursor") =>
        /\ cursorOut.decoded.ok
        /\ cursorOut.decoded.cursor = cursorIn.cursor

\* a cursor with two orderBy values, one of them with a quote and a
\* backslash, and an offset of two digits has made the round trip
C12_Witness ==
    /\ cursorPc = "decoded"
    /\ cursorIn.kind = "cursor"
    /\ \E n \in 10..MaxOffset :
          /\ cursorIn.cursor = Cursor(<<Str.quoted, Str.accent>>, JNumber(FALSE, n, <<>>, FALSE))
          /\ cursorOut.decoded.ok
          /\ Property(cursorOut.decoded.cursor, Str.orderBy) = JArr(<<JStr(Str.quoted), JStr(Str.accent)>>)
          /\ Property(cursorOut.decoded.cursor, Str.offset).int = n

\* C13: decodeCursor fails with InvalidCursorValue, and with no other error,
\* for every input that is not the base64 encoding of a JSON object whose
\* orderBy is a non-empty array of strings and whose offset is a positive
\* finite integer.
C13_InvalidRejected ==
    (cursorPc = "decoded" /\ ~cursorIn.genuine) =>
        /\ ~cursorOut.decoded.ok
        /\ cursorOut.decoded.error = "InvalidCursorValue"

\* -------------------------------------------------------------- connections
\* the list has been answered and the resolver has built its page
Paged == connPc \in {"listed", "awaitCount", "done"} /\ response.pageInfo.set

\* the rows of the entity that pass the where of the connection
Matching == Matched(countSelect(connArgs).q, database)

\* C14: with page size first and incoming offset offsetIn, the list statement
\* runs with limit first + 1; the response has min(first, r) edges, r being
\* the number of rows the statement returned; hasNextPage is true iff
\* r > first, that is iff a matching row exists beyond the page; and
\* hasPreviousPage is true iff r > 0 and offsetIn > 0.
C14_PageShape ==
    Paged =>
        LET first == connArgs.first
            r == connLocal.listLength
            text == stmts[1].text
        IN  /\ \E i \in 1..(Len(text) - 1) :
                  /\ text[i] = Sql("LIMIT")
                  /\ text[i + 1].t = "param"
                  /\ text[i + 1].v = Lit(first + 1)
                  /\ stmts[1].params[text[i + 1].k] = Lit(first + 1)
            /\ response.edges.set => Len(response.edges.items) = (IF first < r THEN first ELSE r)
            /\ response.pageInfo.hasNextPage <=> r > first
            /\ response.pageInfo.hasNextPage <=> Cardinality(Matching) > connLocal.offset + first
            /\ response.pageInfo.hasPreviousPage <=> (r > 0 /\ connLocal.offset > 0)

\* a page of one edge out of two rows returned, behind a cursor
C14_Witness ==
    /\ connPc = "done"
    /\ connArgs.first = 1
    /\ connArgs.after.set
    /\ connLocal.offset = 1
    /\ connLocal.listLength = 2
    /\ Len(response.edges.items) = 1
    /\ response.pageInfo.hasNextPage
    /\ response.pageInfo.hasPreviousPage

\* C15 as stated: totalCount equals offsetIn + returned whenever the list
\* statement returned at most first rows, and in every other case it is the
\* result of executeSelectCount(entity, where).
C15_TotalCount_stated ==
    (connPc = "done" /\ response.pageInfo.set /\ response.totalCount.set) =>
        IF connLocal.listLength <= connArgs.first
        THEN response.totalCount.n = connLocal.offset + connLocal.listLength
        ELSE response.totalCount.n = Cardinality(Matching)

\* C15: totalCount equals offsetIn + returned whenever the list statement
\* returned at least one row and at most first rows; when it returned none or
\* more than first, totalCount is present only if requested and is then the
\* result of executeSelectCount(entity, where), issued as a statement.
C15_TotalCount ==
    (connPc = "done" /\ response.pageInfo.set) =>
        IF connLocal.listLength > 0 /\ connLocal.listLength <= connArgs.first
        THEN /\ response.totalCount.set
             /\ response.totalCount.n = connLocal.offset + connLocal.listLength
             /\ Len(stmts) = 1
        ELSE /\ response.totalCount.set <=> connArgs.fields.totalCount
             /\ response.totalCount.set =>
                   /\ response.totalCount.n = Cardinality(Matching)
                   /\ stmts[Len(stmts)].text[1] = Sql("SELECT count(*)")

\* both cases have happened: an exact page behind a cursor, and an empty page
\* behind a cursor that points past the last row, counted by a statement
C15_Witness ==
    /\ connPc = "done"
    /\ connArgs.fields.totalCount
    /\ connLocal.offset > Cardinality(Matching)
    /\ connLocal.listLength = 0
    /\ response.totalCount.set
    /\ response.totalCount.n = Cardinality(Matching)
    /\ Len(stmts) = 2

\* C16: the cursor of the edge at position i (from 0) encodes {orderBy: the
\* orderBy of the query, offset: offsetIn + i + 1}; when a row is returned,
\* startCursor is the cursor of the first edge and endCursor that of the
\* last; when none is returned both are the empty string.
C16_EdgeCursors ==
    (Paged /\ response.edges.set) =>
        LET edges == response.edges.items
            orderBy == [i \in 1..Len(connArgs.orderBy.items) |-> OrderByValue(connArgs.orderBy.items[i])]
        IN  /\ \A i \in 1..Len(edges) :
                  edges[i].cursor = encodeCursor(Cursor(orderBy, JNumber(FALSE, connLocal.offset + i, <<>>, FALSE)))
            /\ IF connLocal.listLength > 0
               THEN /\ Len(edges) > 0
                    /\ response.pageInfo.startCursor = edges[1].cursor
                    /\ response.pageInfo.endCursor = edges[Len(edges)].cursor
               ELSE /\ response.pageInfo.startCursor = <<>>
                    /\ response.pageInfo.endCursor = <<>>

\* C17: a request whose orderBy is missing or an empty list is rejected with
\* a user input error, before the cursor is decoded and before any statement
\* is issued.
C17_OrderByRequired ==
    (connPc # "start" /\ connPc # "idle"
     /\ ~(Truthy(connArgs.orderBy) /\ Len(ensureArray(connArgs.orderBy)) > 0)) =>
        /\ connPc = "threw"
        /\ response.error = "UserInputError"
        /\ connLocal.calls = <<>>
        /\ stmts = <<>>

\* a request without orderBy whose `after` is no cursor has been rejected for
\* its orderBy
C17_Witness ==
    /\ connPc = "threw"
    /\ connArgs.orderBy = Undefined
    /\ connArgs.after.set
    /\ ~decodeCursor(connArgs.after.value).ok
    /\ response.error = "UserInputError"
    /\ connLocal.calls = <<>>

\* the requests recorded under key `name`
Requests(fields, name) ==
    IF OwnKey(fields, name) = 0 THEN <<>> ELSE fields[OwnKey(fields, name)].requests

\* the fields of a selection set that select property `name`
Selecting(fs, name) == {i \in 1..Len(fs) : fs[i].name = name}

\* the requests that bear an alias, made for a variant ("": outside a union)
Bearing(reqs, alias, ifType) ==
    {j \in 1..Len(reqs) : reqs[j].alias = alias /\ reqs[j].ifType = ifType}

RECURSIVE AliasesKept(_, _, _, _, _)
\* every field selected on objectName has its request in `fields`: a scalar
\* or enum under its alias when `leaves`, else once under its name; any other
\* property once for every alias (among the requests made for `ifType`)
AliasesKept(objectName, tree, fields, ifType, leaves) ==
    LET fs == simplifyResolveTree(tree, objectName)
        Target(propType) ==
            CASE propType.kind = "object" -> propType.name
              [] propType.kind = "fk" -> propType.foreignEntity
              [] OTHER -> propType.entity
        Variants(f, propType, children) ==
            \A v \in 1..Len(RequestedModel[propType.name].variants) :
                AliasesKept(RequestedModel[propType.name].variants[v], f, children,
                            RequestedModel[propType.name].variants[v], FALSE)
        Requested(f, propType, reqs) ==
            IF propType.kind \in {"scalar", "enum"} /\ ~leaves
            THEN reqs = <<FieldRequest(f.name, <<>>, Undefined, "")>>
            ELSE /\ Cardinality(Bearing(reqs, f.alias, ifType)) = 1
                 /\ Cardinality({j \in 1..Len(reqs) : reqs[j].ifType = ifType})
                        = Cardinality(Selecting(fs, f.name))
                 /\ \A j \in Bearing(reqs, f.alias, ifType) :
                        CASE propType.kind \in {"scalar", "enum"} -> TRUE
                          [] propType.kind = "union" -> leaves \/ Variants(f, propType, reqs[j].children)
                          [] OTHER -> AliasesKept(Target(propType), f, reqs[j].children, "", leaves)
    IN \A i \in 1..Len(fs) :
          Requested(fs[i], RequestedModel[objectName].properties[fs[i].name], Requests(fields, fs[i].name))

\* C18: whenever requestedFields returns, every selected field f with alias
\* a has a request with alias a under the key f.name, and k aliases of one
\* property give k requests under that key, for scalar and enum properties
\* as for the other kinds.
C18_AliasRequests ==
    rfPc = "done" =>
        AliasesKept(selection.entityName, selection.tree, requested.fields, "", TRUE)

RECURSIVE ListSelects(_)
RECURSIVE ListSelects_requests(_, _)
\* the arguments of every list sub-select of a field tree, one entry for
\* every request of a list-relation property
ListSelects(fields) ==
    IF fields = <<>> THEN <<>>
    ELSE ListSelects_requests(Head(fields).propType.kind, Head(fields).requests)
            \o ListSelects(Tail(fields))

ListSelects_requests(kind, reqs) ==
    IF reqs = <<>> THEN <<>>
    ELSE (IF kind = "list-relation" THEN <<Head(reqs).args>> ELSE <<>>)
            \o ListSelects(Head(reqs).children)
            \o ListSelects_requests(kind, Tail(reqs))

\* the places of a statement where `word` is followed by a placeholder
Clauses(text, word) ==
    {i \in 1..(Len(text) - 1) : text[i] = Sql(word) /\ text[i + 1].t = "param"}

\* C19: the statement of a list select has one LIMIT clause bound to a
\* parameter for every list select (the top-level one and every list
\* sub-select) whose limit argument is supplied, and none for the others;
\* and one OFFSET clause bound to a parameter for every list select whose
\* offset argument is supplied and is not 0.
C19_LimitOffset ==
    (request.kind = "select" /\ Len(stmts) = 1) =>
        LET lists == <<request.args>> \o ListSelects(request.fields)
        IN  /\ Cardinality(Clauses(stmts[1].text, "LIMIT"))
                  = Cardinality({j \in 1..Len(lists) : lists[j].limit # Undefined})
            /\ Cardinality(Clauses(stmts[1].text, "OFFSET"))
                  = Cardinality({j \in 1..Len(lists) : lists[j].offset \notin {Undefined, Lit(0)}})
            /\ \A i \in 1..Len(stmts[1].text) :
                  stmts[1].text[i] \in {Sql("LIMIT"), Sql("OFFSET")} => i \in
                      Clauses(stmts[1].text, "LIMIT") \cup Clauses(stmts[1].text, "OFFSET")

RECURSIVE Shaped(_, _, _)
\* rec holds, of the fk and object requests of `fields`, those whose cell
\* says present, each as an object shaped the same way, and no key for the
\* others
Shaped(fields, row, rec) ==
    \A i \in 1..Len(fields) : \A j \in 1..Len(fields[i].requests) :
        LET Held(req, present) ==
                /\ (Property(rec, req.alias) # JS.undefined) <=> present
                /\ present => /\ Property(rec, req.alias).j = "obj"
                              /\ Shaped(req.children, row, Property(rec, req.alias))
        IN  CASE fields[i].propType.kind = "fk" ->
                    Held(fields[i].requests[j], Cell(row, fields[i].requests[j].index) # JS.null)
              [] fields[i].propType.kind = "object" ->
                    Held(fields[i].requests[j], Cell(row, fields[i].requests[j].index) = JS.false)
              [] OTHER -> TRUE

\* C20: in the record mapRow returns for a row, the key of an fk request is
\* there iff the foreign id cell at the request's index is not null, the key
\* of an embedded object request iff its presence cell is false; what is
\* there is an object shaped by the same rule, and an absent fk or object
\* leaves no key at all.
C20_AbsentOmitted ==
    rowPc = "done" => Shaped(rowIn.fields, rowIn.row, rowOut)

RECURSIVE Conditioned(_)
\* a where-input has a key other than AND/OR, or a branch of its AND or of
\* its OR (an array, or one where-input) has one
Conditioned(w) ==
    /\ w.t = "obj"
    /\ \/ Len(w.conds) > 0
       \/ \E i \in 1..Len(ensureArray(w.AND)) : Conditioned(ensureArray(w.AND)[i])
       \/ \E i \in 1..Len(ensureArray(w.OR)) : Conditioned(ensureArray(w.OR)[i])

\* C21: hasConditions(w) returns without throwing, for AND and OR given as
\* arrays or as single where-inputs, and returns true iff w has a key other
\* than AND/OR or some nested AND/OR branch has one.
C21_HasConditions ==
    wherePc # "start" =>
        whereOut.has = (IF Conditioned(whereIn.where) THEN "true" ELSE "false")

\* C22: a key made of a property name and a supported suffix parses to that
\* name and the operator of the suffix, the longest suffix the key ends in
\* being the one taken (x_not_in is x with not_in, x_not_contains is x with
\* not_contains); a key that ends in no suffix parses to the whole key with
\* the operator of equality.
C22_LongestSuffix ==
    keyPc # "start" =>
        LET ends == {k \in 1..(Len(keyIn) - 1) :
                        \E e \in 1..Len(ENDINGS) : SubSeq(keyIn, k + 1, Len(keyIn)) = ENDINGS[e]}
            Denoted == [s \in {ENDINGS[e] : e \in 1..7} |->
                CASE s = <<"not">>       -> "!="
                  [] s = <<"gt">>        -> ">"
                  [] s = <<"gte">>       -> ">="
                  [] s = <<"lt">>        -> "<"
                  [] s = <<"lte">>       -> "<="
                  [] s = <<"in">>        -> "IN"
                  [] s = <<"not", "in">> -> "NOT IN"]
            Longest(k) ==
                /\ keyOut.err = ""
                /\ keyOut.field = SubSeq(keyIn, 1, k)
                /\ SubSeq(keyIn, k + 1, Len(keyIn)) \in DOMAIN Denoted =>
                        keyOut.op = Denoted[SubSeq(keyIn, k + 1, Len(keyIn))]
        IN  IF ends = {}
            THEN keyOut = [err |-> "", op |-> "=", field |-> keyIn]
            ELSE Longest(CHOOSE k \in ends : \A j \in ends : k <= j)

RECURSIVE Comparisons(_, _)
\* every condition of the where-input, at any depth, compares a scalar
\* property, of the entity or of an entity reached through foreign keys
Comparisons(w, entity) ==
    w.t = "obj" =>
        /\ \A i \in 1..Len(w.conds) :
              LET f    == parseWhereField(w.conds[i].key)
                  prop == Model[entity].properties[f.field]
              IN  \/ prop.kind = "scalar" /\ f.op \in {"-", "eq", "not_eq", "gt", "gte", "lt", "lte", "in", "not_in"}
                  \/ prop.kind = "fk" /\ Comparisons(w.conds[i].arg, prop.foreignEntity)
        /\ \A i \in 1..Len(ensureArray(w.AND)) : Comparisons(ensureArray(w.AND)[i], entity)
        /\ \A i \in 1..Len(ensureArray(w.OR)) : Comparisons(ensureArray(w.OR)[i], entity)

RECURSIVE Means(_, _, _, _)
\* what a where-input {C, AND: A, OR: O} asks of a row: all conditions of C
\* and every A_i that has conditions, or any O_j that has conditions;
\* branches without conditions contribute nothing
Means(w, entity, row, db) ==
    LET ands  == SelectSeq(ensureArray(w.AND), Conditioned)
        ors   == SelectSeq(ensureArray(w.OR), Conditioned)
        group == /\ \A i \in 1..Len(w.conds) : Holds(w.conds[i], entity, row, db)
                 /\ \A i \in 1..Len(ands) : Means(ands[i], entity, row, db)
        any   == \E i \in 1..Len(ors) : Means(ors[i], entity, row, db)
    IN  CASE Len(ors) = 0 -> group
          [] Len(w.conds) = 0 /\ Len(ands) = 0 -> any
          [] OTHER -> group \/ any

\* C23: the predicate generateWhere produces for a where-input {C, AND, OR}
\* is one the database accepts, and it selects the rows that meet all
\* conditions of C and every AND branch that has conditions, or any OR
\* branch that has conditions, also when only the OR branches have any.
C23_WherePredicate ==
    (/\ request.kind = "select"
     /\ Conditioned(request.args.where)
     /\ Comparisons(request.args.where, request.entity)
     /\ hasConditions(request.args.where) = "true") =>
        /\ selPc \notin {"threw", "rejected"}
        /\ selPc = "done" =>
              result = {r.id : r \in {r \in database[toTable(request.entity)] :
                                         Means(request.args.where, request.entity, r, database)}}

\* the keys of a record
Keys(rec) == {rec.pairs[i].k : i \in 1..Len(rec.pairs)}

\* the child requests of a union request that apply to variant T and have
\* something to show in the row: `shared` says whether the requests that
\* bear no ifType are among them
UnionChildren(req, row, T, shared) ==
    UNION {{req.children[c].requests[n] : n \in
                {n \in 1..Len(req.children[c].requests) :
                    /\ \/ shared /\ req.children[c].requests[n].ifType = ""
                       \/ req.children[c].requests[n].ifType = T
                    /\ req.children[c].propType.kind = "fk" =>
                          Cell(row, req.children[c].requests[n].index) # JS.null}} :
           c \in 1..Len(req.children)}

\* C24: a union request whose discriminator cell names variant T yields an
\* object with isTypeOf = T that holds a value for every child request
\* shared by the variants (no ifType) and for every child request of T, and
\* no other key; a null discriminator leaves no key.
C24_UnionShaped ==
    rowPc = "done" =>
        \A i \in 1..Len(rowIn.fields) : \A j \in 1..Len(rowIn.fields[i].requests) :
            LET req == rowIn.fields[i].requests[j]
                T   == Cell(rowIn.row, req.index)
                obj == Property(rowOut, req.alias)
            IN  rowIn.fields[i].propType.kind = "union" =>
                    IF T = JS.null THEN obj = JS.undefined
                    ELSE /\ obj.j = "obj"
                         /\ Property(obj, "isTypeOf") = T
                         /\ Keys(obj) = {"isTypeOf"}
                               \cup {cr.alias : cr \in UnionChildren(req, rowIn.row, T.s, TRUE)}

\* the cell of a row of a full-text search under the name the outer SELECT
\* lists it by
FtsCell(q, row, name) ==
    LET at == {c \in 1..Len(q.cols) : q.cols[c] = name}
    IN  IF at = {} THEN JS.undefined ELSE row[CHOOSE c \in at : TRUE]

\* C25: whether highlight and item are requested or not, the statement
\* projects isTypeOf, rank, then highlight if requested, then item if
\* requested, and toFulltextSearchResult takes rank, highlight and item from
\* the columns of those names; the item carries isTypeOf, the source entity
\* of the row, also when no fields of that entity were requested.
C25_FtsColumns ==
    (rowPc = "done" /\ rowIn.request.kind = "fts") =>
        LET hl     == rowIn.request.ftsFields.highlight
            it     == rowIn.request.ftsFields.hasItem
            entity == rowIn.row[1].s
            item   == Property(rowOut, "item")
        IN  /\ rowIn.q.cols = <<"isTypeOf", "rank">>
                                \o (IF hl THEN <<"highlight">> ELSE <<>>)
                                \o (IF it THEN <<"item">> ELSE <<>>)
            /\ \E s \in 1..Len(rowIn.q.srcSelects) : rowIn.q.srcSelects[s].entity = entity
            /\ Property(rowOut, "rank") = FtsCell(rowIn.q, rowIn.row, "rank")
            /\ Property(rowOut, "rank").j = "num"
            /\ Property(rowOut, "highlight") =
                  (IF hl THEN FtsCell(rowIn.q, rowIn.row, "highlight") ELSE JS.undefined)
            /\ Property(item, "isTypeOf") = JStr(entity)
            /\ IF it /\ entity \in DOMAIN rowIn.request.ftsFields.item
               THEN item = Record_set(mapRow(FtsCell(rowIn.q, rowIn.row, "item").items,
                                             rowIn.fields.item[entity], ""),
                                      "isTypeOf", JStr(entity))
               ELSE Keys(item) = {"isTypeOf"}

\* a row of Account has been shaped for a search that asked for the
\* highlight and for the wallet and id of Account items only: the item was
\* read behind the highlight
C25_Witness ==
    /\ rowPc = "done"
    /\ rowIn.request.kind = "fts"
    /\ rowIn.request.ftsFields.highlight
    /\ rowIn.request.ftsFields.hasItem
    /\ DOMAIN rowIn.request.ftsFields.item = {"Account"}
    /\ Property(rowOut, "highlight").j = "str"
    /\ rowIn.row[1] = JStr("Account")
    /\ Keys(Property(rowOut, "item")) = {"wallet", "id", "isTypeOf"}

RECURSIVE Scoped(_, _)
\* every table alias an expression refers to is in scope; the scope of a
\* (sub-)select is that of the statement around it, its own root alias and
\* the aliases of the LEFT OUTER JOINs it renders
Scoped(x, scope) ==
    CASE x.e = "col" -> x.alias \in scope
      [] x.e \in {"jget", "jtext"} -> Scoped(x.obj, scope)
      [] x.e \in {"cast", "isnull", "order", "paren"} -> Scoped(x.x, scope)
      [] x.e \in {"cmp", "starts_with", "ends_with", "contains"} ->
            Scoped(x.lhs, scope) /\ Scoped(x.rhs, scope)
      [] x.e = "in" ->
            Scoped(x.lhs, scope) /\ \A i \in 1..Len(x.list) : Scoped(x.list[i], scope)
      [] x.e \in {"and", "or"} -> \A i \in 1..Len(x.items) : Scoped(x.items[i], scope)
      [] x.e \in {"array", "some", "none"} -> Scoped(x.q, scope)
      [] x.e = "every" -> Scoped(x.a, scope) /\ Scoped(x.b, scope)
      [] x.e = "fts_match" -> Scoped(x.tsv, scope)
      [] x.e = "fts_union" -> \A i \in 1..Len(x.srcSelects) : Scoped(x.srcSelects[i], scope)
      [] x.e = "select" ->
            LET own == scope \cup {x.alias} \cup {x.joins[i].alias : i \in 1..Len(x.joins)}
            IN  /\ \A i \in 1..Len(x.columns) : Scoped(x.columns[i].expr, own)
                /\ \A i \in 1..Len(x.whereExps) : Scoped(x.whereExps[i], own)
                /\ \A i \in 1..Len(x.orderByExps) : Scoped(x.orderByExps[i], own)
                /\ x.variant = "fts" => Scoped(x.tsv, own) /\ Scoped(x.doc, own)
      [] OTHER -> TRUE

\* C26: in every statement select() plans, at any depth, each table alias
\* the projection, the WHERE or the ORDER BY refers to is the root alias of
\* the statement, an alias of a statement around it, or the alias of a LEFT
\* OUTER JOIN the statement itself renders.
C26_AliasScope ==
    /\ plan.q # Nil => Scoped(plan.q, {})
    /\ (plan.q.e = "select" /\ Len(stmts) = 1) =>
          \A j \in 1..Len(plan.q.joins) :
              \E i \in Occurrences(stmts[1].text, Sql("LEFT OUTER JOIN")) :
                  stmts[1].text[i + 2] = Ident(plan.q.joins[j].alias)

\* a statement went out whose WHERE and ORDER BY both go through a join
\* of the statement
C26_Witness ==
    /\ request.kind = "select"
    /\ Len(stmts) = 1
    /\ Len(plan.q.joins) > 0
    /\ \E i \in 1..Len(plan.q.whereExps) : ~Scoped(plan.q.whereExps[i], {plan.q.alias})
    /\ \E i \in 1..Len(plan.q.orderByExps) : ~Scoped(plan.q.orderByExps[i], {plan.q.alias})

\* C27: on a fixed snapshot in which N rows match `where`, a connection
\* request that asks for totalCount and is answered receives totalCount = N,
\* for every incoming offset (at or beyond N included) and every page size,
\* whether the resolver derived it as offset + returned rows or the count
\* statement delivered it, and whether nodes were selected or only cursors or
\* pageInfo.
C27_TotalCountIsN ==
    (connPc = "done" /\ connArgs.fields.totalCount) =>
        /\ response.totalCount.set
        /\ response.totalCount.n = Cardinality(Matching)

\* a page behind the first one, of cursors only, under a where that leaves
\* rows out: totalCount was derived from the list count, no count statement
\* went out
C27_Witness ==
    /\ connPc = "done"
    /\ connArgs.fields.totalCount
    /\ ~connArgs.fields.node
    /\ Truthy(connArgs.where)
    /\ Cardinality(Matching) < Cardinality(database.historical_balance)
    /\ connLocal.offset > 0
    /\ connLocal.listLength > 0
    /\ Len(stmts) = 1
    /\ response.totalCount.n = connLocal.offset + connLocal.listLength

\* C28: the client a Transaction obtained from the pool is released at most
\* once, whatever get() and close() calls are made, close() called more
\* than once and a failed START TRANSACTION included.
C28_ReleasedOnce == releases <= 1

\* close() has been called: one of its calls has run
Closing == \E k \in CloseIds : closes[k] # "idle"

\* get() has not been called, or only to throw
Unrequested == \A c \in Callers : callers[c].state \in {"idle", "threw"}

\* C29: once close() has been called, get() throws and calls no
\* pool.connect(); and a Transaction whose get() was never called has
\* obtained no connection: its close() chains nothing, sends no COMMIT and
\* releases nothing.
C29_ClosedRefuses ==
    /\ [][\A c \in Callers :
            (Closing /\ callers[c].state = "idle" /\ callers'[c].state # "idle") =>
                /\ callers'[c].state = "threw"
                /\ connectCalls' = connectCalls
                /\ client' = client
                /\ stPc' = stPc]_vars
    /\ [](Unrequested =>
            /\ client.state = "undefined"
            /\ connectCalls = 0
            /\ startCalls = 0
            /\ commitCalls = 0
            /\ releases = 0
            /\ \A k \in CloseIds : closes[k] \in {"idle", "noop"})

\* close() ran on a Transaction never asked for a client, and a get() after
\* it threw
C29_Witness ==
    /\ closed
    /\ \E k \in CloseIds : closes[k] = "noop"
    /\ \E c \in Callers : callers[c].state = "threw"
    /\ Unrequested
    /\ connectCalls = 0
    /\ releases = 0

\* C30: the promise close() returns is never rejected, whether COMMIT
\* failed, get() was never called, or pool.connect() or START TRANSACTION
\* of the Transaction failed.
C30_CloseResolves == \A k \in CloseIds : closes[k] # "rejected"


====
